---- MODULE Spec2Model ----
(***************************************************************************)
(* A model of terraform-provider-utils (internal/provider).                *)
(*                                                                         *)
(* Four subsystems are modelled, each with its own specification:          *)
(*                                                                         *)
(*   SpecDart  the Dart-version data source: config validation, the        *)
(*             errgroup fan-out of one listVersions request per channel,   *)
(*             the fan-in over the unbuffered versionsChan, and the        *)
(*             filter / sort / container-version roll-up.  Both source     *)
(*             variants of DartVersionsDataSource are modelled: the one    *)
(*             with the `channels` attribute ("channels") and the one      *)
(*             with `include_prerelease` and `container_versions`          *)
(*             ("prerelease").                                             *)
(*                                                                         *)
(*   SpecRes   the Create / Read / Update / Delete handlers of the five    *)
(*             resources, one cloud call per step, over several handler    *)
(*             calls against one cloud; SpecResLive adds the fairness of   *)
(*             the handler's own steps.                                    *)
(*             The cloud keeps the percentages of each rollout and the     *)
(*             source files of each configuration the handlers make, and   *)
(*             a Read may follow the Create or Update that wrote its       *)
(*             prior state.                                                *)
(*                                                                         *)
(*   SpecId    parseConfigId / parseRolloutId and newConfigId /            *)
(*             newRolloutId over bounded ID strings.                       *)
(*                                                                         *)
(*   SpecProv  UtilsProvider.Configure: credentials, the three clients,    *)
(*             the provider data, and a resource's Configure.              *)
(*                                                                         *)
(* SpecDartLive is SpecDart with the fairness of Read's own goroutines.    *)
(*                                                                         *)
(* Version strings are canonical `major.minor.patch[-pre]` directory names *)
(* of the release bucket, written <<major, minor, patch, pre>> with pre = 0*)
(* for "no pre-release tag" and pre = n > 0 for the numeric tag "-n".      *)
(***************************************************************************)
EXTENDS Integers, Sequences, FiniteSets, TLC

VARIABLES
    \* ---- Dart-version data source ----
    variant,        \* which source variant of DartVersionsDataSource runs
    cfgChannels,    \* config attribute `channels`: [null, elems]
    cfgMinVersion,  \* config attribute `min_version`
    cfgInclude,     \* config attribute `include_prerelease`: "null"/"true"/"false"
    dpc,            \* position of the Read call: config, validated, rejected, range, done
    channels,       \* the local `channels` slice of Read
    prodPc,         \* per errgroup goroutine: run, send, done
    prodOut,        \* per errgroup goroutine: the slice it is about to send
    egErr,          \* errgroup.Group.err, <<>> while unset, else <<err>>
    chanClosed,     \* versionsChan has been closed
    versionsSet,    \* the local map versionsSet of Read
    dDiags,         \* resp.Diagnostics of the data source call
    dState,         \* resp.State of the data source call
    \* history of the data source call (observations, never read by the code)
    requested,      \* channel -> number of listVersions calls made for it
    listed,         \* the versions the successful listings returned
    dupListed,      \* some version was listed more than once
    firstErr,       \* the first error a goroutine returned, <<>> while none
    okAfterErr,     \* a listVersions call succeeded after the group recorded an error
    \* ---- resource handlers ----
    resource,       \* the resource whose handler runs
    op,             \* the handler: Create, Read, Update, Delete
    rpc,            \* position of the handler
    rDiags,         \* resp.Diagnostics of the handler
    lDiags,         \* createRollout's parameter `diagnostics` (a copy of the slice)
    rState,         \* resp.State: none, prior, written, empty
    opDone,         \* op.Done of the long-running operation being polled
    polls,          \* Operations.Get requests made by the poll loop
    cfgConfigId,    \* rollout attribute `config_id`: [null, value]
    cfgRolloutConfig, \* rollout attribute `rollout_config`: [null, elems]
    rId,            \* the `id` written to resp.State, <<>> while none
    cancelled,      \* the request context ctx has been cancelled
    remote,         \* the rollouts and configurations the cloud holds, oldest first
    ncalls,         \* handler calls started so far
    cfgSource,      \* configuration attributes `config_yaml`, `proto_descriptor_base64`
    content,        \* what each object of `remote` holds: percentages, source files
    rAttrs,         \* the attributes of resp.State other than `id`
    chained,        \* the prior state of this Read is what the last call wrote
    \* history of the handler call
    returned,       \* the errors cloud calls and operation waits returned
    notFound,       \* the cloud reported the resource of this Read as not found
    sleeps,         \* the durations of the time.Sleep calls, in seconds
    opFailed,       \* the long-running operation finished with an error result
    calls,          \* the cloud API requests issued, in order
    answer,         \* what the last Get or List request of this call returned
    \* ---- resource and data-source IDs ----
    idPc,           \* position: parts, input, parsed
    idParts,        \* the <<serviceName, id>> an ID is made from
    idIn,           \* the ID string handed to the parse function
    idMade,         \* the function that made idIn: none, config, rollout
    idOut,          \* what the parse function returned
    \* ---- provider Configure ----
    provPc,         \* position of UtilsProvider.Configure
    cfgProjectId,   \* provider attribute `project_id`: null, unknown, value
    cfgAccessToken, \* provider attribute `access_token`: null, unknown, value
    defaultCreds,   \* FindDefaultCredentialsWithParams finds credentials
    clientErrs,     \* the client constructors that return an error
    dialOpts,       \* the local dialOpts of Configure
    pDiags,         \* resp.Diagnostics of Configure
    resourceData,   \* resp.ResourceData, <<>> while nil
    dataSourceData, \* resp.DataSourceData, <<>> while nil
    resClients,     \* the client fields of a resource after its Configure
    \* history of Configure
    attempts        \* the client constructions made: <<client, succeeded>>

dartVars == <<variant, cfgChannels, cfgMinVersion, cfgInclude, dpc, channels,
              prodPc, prodOut, egErr, chanClosed, versionsSet, dDiags, dState,
              requested, listed, dupListed, firstErr, okAfterErr>>
resVars == <<resource, op, rpc, rDiags, lDiags, rState, opDone, polls, cfgConfigId,
             cfgRolloutConfig, rId, cancelled, remote, ncalls, cfgSource, content, rAttrs,
             chained, returned, notFound, sleeps, opFailed, calls, answer>>
idVars == <<idPc, idParts, idIn, idMade, idOut>>
provVars == <<provPc, cfgProjectId, cfgAccessToken, defaultCreds, clientErrs, dialOpts,
              pDiags, resourceData, dataSourceData, resClients, attempts>>
auxVars == <<idVars, provVars>>
vars == <<dartVars, resVars, auxVars>>

-----------------------------------------------------------------------------
(* Bounds *)

MaxList == 2        \* longest listing one channel request returns

-----------------------------------------------------------------------------
(* Generic helpers *)

Range(s) == {s[i] : i \in 1..Len(s)}

SeqsUpTo(S, n) == UNION {[1..k -> S] : k \in 0..n}

\* All orders in which the elements of a finite set can be enumerated
\* (Go map iteration order is unspecified).
Orders(S) == {s \in [1..Cardinality(S) -> S] : Range(s) = S}

-----------------------------------------------------------------------------
(* Semantic versions: github.com/coreos/go-semver as used by Read *)

\* The version strings the bucket may list.
Universe == {<<3, 4, 2, 0>>, <<3, 5, 0, 1>>, <<3, 5, 0, 0>>, <<3, 5, 1, 0>>}

MinVersions == {<<3, 5, 0, 0>>, <<3, 5, 0, 1>>}

\* semver.New(version): parse the string into a Version value.
SemverNew(s) == [Major |-> s[1], Minor |-> s[2], Patch |-> s[3], PreRelease |-> s[4]]

\* (variant of VersionString that leaves the pre-release tag out)
VersionStringNoTag(v) == <<v.Major, v.Minor, v.Patch, 0>>

\* Version.String(): format a Version value.
VersionString(v) == <<v.Major, v.Minor, v.Patch, v.PreRelease>>

\* Version.Compare: major, minor, patch numerically; then, the triples being
\* equal, a version without pre-release tag is the greater one, and two tags
\* compare numerically.
Compare(a, b) ==
    IF a.Major /= b.Major THEN (IF a.Major < b.Major THEN -1 ELSE 1)
    ELSE IF a.Minor /= b.Minor THEN (IF a.Minor < b.Minor THEN -1 ELSE 1)
    ELSE IF a.Patch /= b.Patch THEN (IF a.Patch < b.Patch THEN -1 ELSE 1)
    ELSE IF a.PreRelease = 0 /\ b.PreRelease > 0 THEN 1
    ELSE IF b.PreRelease = 0 /\ a.PreRelease > 0 THEN -1
    ELSE IF a.PreRelease < b.PreRelease THEN -1
    ELSE IF a.PreRelease > b.PreRelease THEN 1
    ELSE 0

\* (variant of LessThan that also holds of equal versions)
LessThanOrEqual(a, b) == Compare(a, b) <= 0

\* Version.LessThan
LessThan(a, b) == Compare(a, b) < 0

\* semver.Sort(versions): sort.Sort with Less = LessThan, here by insertion.
RECURSIVE InsertVersion(_, _)
InsertVersion(v, s) ==
    IF s = <<>> THEN <<v>>
    ELSE IF LessThan(v, Head(s)) THEN <<v>> \o s
    ELSE <<Head(s)>> \o InsertVersion(v, Tail(s))

\* (variant of SemverSort that leaves the iteration order as it is)
SortKeepOrder(s) == s

RECURSIVE SemverSort(_)
SemverSort(s) == IF s = <<>> THEN <<>> ELSE InsertVersion(Head(s), SemverSort(Tail(s)))

\* The text of a string as character codes, for sort.Strings: digits are
\* '0' + d, '.' is 46 and '-' is 45.  A container version is either a full
\* version string (4 components) or a "major.minor" roll-up (2 components).
Text(s) ==
    IF Len(s) = 2 THEN <<48 + s[1], 46, 48 + s[2]>>
    ELSE IF s[4] = 0 THEN <<48 + s[1], 46, 48 + s[2], 46, 48 + s[3]>>
    ELSE <<48 + s[1], 46, 48 + s[2], 46, 48 + s[3], 45, 48 + s[4]>>

\* Go's string `<`: byte-wise lexicographic, a proper prefix being smaller.
RECURSIVE LexLess(_, _)
LexLess(a, b) ==
    IF b = <<>> THEN FALSE
    ELSE IF a = <<>> THEN TRUE
    ELSE IF Head(a) /= Head(b) THEN Head(a) < Head(b)
    ELSE LexLess(Tail(a), Tail(b))

RECURSIVE InsertString(_, _)
InsertString(x, s) ==
    IF s = <<>> THEN <<x>>
    ELSE IF LexLess(Text(x), Text(Head(s))) THEN <<x>> \o s
    ELSE <<Head(s)>> \o InsertString(x, Tail(s))

\* sort.Strings(containerVersions)
RECURSIVE SortStrings(_)
SortStrings(s) == IF s = <<>> THEN <<>> ELSE InsertString(Head(s), SortStrings(Tail(s)))

-----------------------------------------------------------------------------
(* The Dart-version data source: pure parts of Schema and Read *)

AllChannels == {"stable", "beta", "dev"}

NullList == [null |-> TRUE, elems |-> <<>>]
ListOf(s) == [null |-> FALSE, elems |-> s]

\* The `channels` configurations explored: unset, empty, one channel, several
\* channels in either order, a repeated channel, all three, and lists with a
\* value the schema does not allow.
ChannelConfigs ==
    {NullList} \cup
    {ListOf(s) : s \in {<<>>, <<"stable">>, <<"beta">>, <<"dev">>,
                        <<"stable", "beta">>, <<"beta", "stable">>, <<"dev", "dev">>,
                        <<"dev", "beta", "stable">>,
                        <<"bad">>, <<"stable", "bad">>, <<"bad", "beta">>, <<"bad", "bad">>}}

\* (variant of ChannelsValid whose validator accepts every string)
ChannelsValidAny(cfg) == TRUE

\* Schema, `channels`: listvalidator.ValueStringsAre(stringvalidator.OneOf(
\* "stable", "beta", "dev")); a null list is not validated.
ChannelsValid(cfg) == cfg.null \/ \A i \in 1..Len(cfg.elems) : cfg.elems[i] \in AllChannels

\* (variant of Channels000 whose default is every channel)
Channels000AllDefault(cfg) == IF ~cfg.null THEN cfg.elems ELSE <<"stable", "beta", "dev">>

\* Read, variant "channels": channels := []string{"stable"}, replaced by the
\* configured list when that is neither unknown nor null.
Channels000(cfg) == IF ~cfg.null THEN cfg.elems ELSE <<"stable">>

\* Read, variant "prerelease": channels := []string{"stable", "beta", "dev"}.
Channels001 == <<"stable", "beta", "dev">>

\* model.IncludePrerelease.ValueBool(): false for null.
ValueBool(b) == b = "true"

\* (variant of GroupRecord in which a later error replaces the recorded one)
GroupRecordLast(cur, e) == <<e>>

\* errgroup.Group.Go: g.errOnce.Do(func() { g.err = err }).
GroupRecord(cur, e) == IF cur = <<>> THEN <<e>> ELSE cur

\* for _, version := range versions { versionsSet[version] = struct{}{} }
RECURSIVE MergeListing(_, _)
MergeListing(set, l) ==
    IF l = <<>> THEN set ELSE MergeListing(set \cup {Head(l)}, Tail(l))

\* The filter loop of variant "channels" over the map in iteration order
\* `order`: skip what is lower than min_version.
Filter000(order, min) ==
    LET sem == [i \in 1..Len(order) |-> SemverNew(order[i])]
        keep(v) == ~LessThan(v, SemverNew(min))
    IN  SelectSeq(sem, keep)

\* The filter loop of variant "prerelease": also skip pre-releases unless
\* include_prerelease is true.
Filter001(order, min, inc) ==
    LET sem == [i \in 1..Len(order) |-> SemverNew(order[i])]
        keep(v) == ~LessThan(v, SemverNew(min)) /\ ~(v.PreRelease /= 0 /\ ~inc)
    IN  SelectSeq(sem, keep)

\* versionAttrs: version.String() of each sorted version.
VersionAttrs(sorted) == [i \in 1..Len(sorted) |-> VersionString(sorted[i])]

\* (variant of ContainerVersion that rolls every version up)
ContainerVersionAlwaysMinor(v) == <<v.Major, v.Minor>>

\* The key a version contributes to containerVersionSet.
ContainerVersion(v) ==
    IF v.PreRelease /= 0 THEN VersionString(v) ELSE <<v.Major, v.Minor>>

ContainerVersionSet(sorted) == {ContainerVersion(sorted[i]) : i \in 1..Len(sorted)}

NoState == [set |-> FALSE, versions |-> <<>>, container_versions |-> <<>>]

\* The error listVersions returns for a channel: the http.Get error, the
\* non-200 status, or the JSON decode error, each naming the channel.
ListCauses == {"get", "status", "decode"}
ListError(c, cause) == [text |-> cause, channel |-> c]

\* The validator's complaint about one element.
OneOfError(c) == [text |-> "must be one of", channel |-> c]

Diag(summary, detail) == [summary |-> summary, detail |-> detail]

HasError(diags) == diags /= <<>>

\* What one channel request may return: the bucket lists object names in
\* lexicographic order, at most MaxList of them here.
Listings == {l \in SeqsUpTo(Universe, MaxList) :
               \A k \in 1..(Len(l) - 1) : ~LexLess(Text(l[k + 1]), Text(l[k]))}

-----------------------------------------------------------------------------
(* The Dart-version data source: actions *)

\* types.String and types.Map values of a resource configuration: null, or a
\* string (its characters), or a map (its key/value pairs).
NullString == [null |-> TRUE, value |-> <<>>]
StringValue(s) == [null |-> FALSE, value |-> s]
NullMap == [null |-> TRUE, elems |-> {}]
MapValue(m) == [null |-> FALSE, elems |-> m]

\* The attributes of a resource state other than `id`: config_id and
\* rollout_config of a rollout, config_yaml and proto_descriptor_base64 of a
\* configuration, status of a tenant project.
NoAttrs ==
    [config_id |-> NullString, rollout_config |-> NullMap, config_yaml |-> NullString,
     proto_descriptor_base64 |-> NullString, status |-> NullString]

\* The source attributes of a configuration: the YAML text (its bytes) and
\* the base64 text of the descriptor (its characters).
Source(yaml, proto) == [yaml |-> yaml, proto |-> proto]
NoSource == Source(<<>>, <<>>)

\* The payload of a response: the percentages of a rollout, the source
\* files of a configuration, the tenancy units of a listing.
Answer(kind, percentages, files, units) ==
    [kind |-> kind, percentages |-> percentages, files |-> files, units |-> units]
NoAnswer == Answer("none", {}, <<>>, <<>>)

\* The (serviceName, id, err) a parse function returns.
Parsed(fn, err, first, second) == [fn |-> fn, err |-> err, first |-> first, second |-> second]
NoParse == Parsed("none", "", <<>>, <<>>)

IdIdle ==
    /\ idPc = "idle"
    /\ idParts = <<<<>>, <<>>>>
    /\ idIn = <<>>
    /\ idMade = "none"
    /\ idOut = NoParse

ProvIdle ==
    /\ provPc = "idle"
    /\ cfgProjectId = "null"
    /\ cfgAccessToken = "null"
    /\ defaultCreds = FALSE
    /\ clientErrs = {}
    /\ dialOpts = {}
    /\ pDiags = <<>>
    /\ resourceData = <<>>
    /\ dataSourceData = <<>>
    /\ resClients = <<>>
    /\ attempts = <<>>


ResIdle ==
    /\ resource = "none"
    /\ op = "none"
    /\ rpc = "idle"
    /\ rDiags = <<>>
    /\ lDiags = <<>>
    /\ rState = "none"
    /\ opDone = FALSE
    /\ polls = 0
    /\ cfgConfigId = NullString
    /\ cfgRolloutConfig = NullMap
    /\ rId = <<>>
    /\ cancelled = FALSE
    /\ remote = <<>>
    /\ ncalls = 0
    /\ cfgSource = NoSource
    /\ content = <<>>
    /\ rAttrs = NoAttrs
    /\ chained = FALSE
    /\ answer = NoAnswer
    /\ returned = {}
    /\ notFound = FALSE
    /\ sleeps = <<>>
    /\ opFailed = FALSE
    /\ calls = <<>>

DartInit ==
    /\ variant \in {"channels", "prerelease"}
    /\ cfgChannels \in
         IF variant = "channels"
         THEN ChannelConfigs
         ELSE {NullList}
    /\ cfgMinVersion \in MinVersions
    /\ cfgInclude \in IF variant = "prerelease" THEN {"null", "true", "false"} ELSE {"null"}
    /\ dpc = "config"
    /\ channels = <<>>
    /\ prodPc = <<>>
    /\ prodOut = <<>>
    /\ egErr = <<>>
    /\ chanClosed = FALSE
    /\ versionsSet = {}
    /\ dDiags = <<>>
    /\ dState = NoState
    /\ requested = [c \in AllChannels |-> 0]
    /\ listed = {}
    /\ dupListed = FALSE
    /\ firstErr = <<>>
    /\ okAfterErr = FALSE

\* Config validation, which precedes Read: the schema's validators run over
\* the configuration, and a configuration with an error is never read.
ValidateConfig ==
    /\ dpc = "config"
    /\ IF variant = "channels" /\ ~ChannelsValid(cfgChannels)
       THEN /\ dDiags' = [i \in 1..Len(SelectSeq(cfgChannels.elems, LAMBDA c : c \notin AllChannels)) |->
                            Diag("Invalid Attribute Value Match",
                                 OneOfError(SelectSeq(cfgChannels.elems, LAMBDA c : c \notin AllChannels)[i]))]
            /\ dpc' = "rejected"
       ELSE /\ dDiags' = dDiags
            /\ dpc' = "validated"
    /\ UNCHANGED <<variant, cfgChannels, cfgMinVersion, cfgInclude, channels, prodPc,
                   prodOut, egErr, chanClosed, versionsSet, dState, requested, listed,
                   dupListed, firstErr, okAfterErr>>
    /\ UNCHANGED <<resVars, auxVars>>

\* Read up to the start of the range loop: the channel list, one eg.Go per
\* entry, and the goroutine that waits for the group.
ReadStart ==
    /\ dpc = "validated"
    /\ channels' = IF variant = "channels" THEN Channels000(cfgChannels) ELSE Channels001
    /\ prodPc' = [i \in 1..Len(channels') |-> "run"]
    /\ prodOut' = [i \in 1..Len(channels') |-> <<>>]
    /\ dpc' = "range"
    /\ UNCHANGED <<variant, cfgChannels, cfgMinVersion, cfgInclude, egErr, chanClosed,
                   versionsSet, dDiags, dState, requested, listed, dupListed, firstErr,
                   okAfterErr>>
    /\ UNCHANGED <<resVars, auxVars>>

\* A goroutine's listVersions(channel) returns a listing.
ListOk(i) ==
    /\ dpc = "range"
    /\ i \in 1..Len(prodPc)
    /\ prodPc[i] = "run"
    /\ \E l \in Listings :
         /\ prodOut' = [prodOut EXCEPT ![i] = l]
         /\ listed' = listed \cup Range(l)
         /\ dupListed' = \/ dupListed
                         \/ \E v \in Range(l) : v \in listed
                         \/ Cardinality(Range(l)) < Len(l)
    /\ prodPc' = [prodPc EXCEPT ![i] = "send"]
    /\ okAfterErr' = (okAfterErr \/ egErr /= <<>>)
    /\ requested' = [requested EXCEPT ![channels[i]] = @ + 1]
    /\ UNCHANGED <<variant, cfgChannels, cfgMinVersion, cfgInclude, dpc, channels, egErr,
                   chanClosed, versionsSet, dDiags, dState, firstErr>>
    /\ UNCHANGED <<resVars, auxVars>>

\* A goroutine's listVersions(channel) returns an error: the function passed
\* to eg.Go returns it and the group records it.
ListFail(i) ==
    /\ dpc = "range"
    /\ i \in 1..Len(prodPc)
    /\ prodPc[i] = "run"
    /\ \E cause \in ListCauses :
         /\ egErr' = GroupRecord(egErr, ListError(channels[i], cause))
         /\ firstErr' = IF firstErr = <<>> THEN <<ListError(channels[i], cause)>> ELSE firstErr
    /\ prodPc' = [prodPc EXCEPT ![i] = "done"]
    /\ requested' = [requested EXCEPT ![channels[i]] = @ + 1]
    /\ UNCHANGED <<variant, cfgChannels, cfgMinVersion, cfgInclude, dpc, channels, prodOut,
                   chanClosed, versionsSet, dDiags, dState, listed, dupListed, okAfterErr>>
    /\ UNCHANGED <<resVars, auxVars>>

\* versionsChan is unbuffered: a goroutine's send and the range loop's
\* receive happen together; the loop body merges the slice into versionsSet.
Receive(i) ==
    /\ dpc = "range"
    /\ ~chanClosed
    /\ i \in 1..Len(prodPc)
    /\ prodPc[i] = "send"
    /\ versionsSet' = MergeListing(versionsSet, prodOut[i])
    /\ prodPc' = [prodPc EXCEPT ![i] = "done"]
    /\ prodOut' = [prodOut EXCEPT ![i] = <<>>]
    /\ UNCHANGED <<variant, cfgChannels, cfgMinVersion, cfgInclude, dpc, channels, egErr,
                   chanClosed, dDiags, dState, requested, listed, dupListed, firstErr,
                   okAfterErr>>
    /\ UNCHANGED <<resVars, auxVars>>

\* (variant of WaitClose whose wait ends once every request has returned)
WaitCloseEarly ==
    /\ dpc = "range"
    /\ ~chanClosed
    /\ \A i \in 1..Len(prodPc) : prodPc[i] /= "run"
    /\ dDiags' = IF egErr /= <<>>
                 THEN Append(dDiags, Diag("Failed to list versions", egErr[1]))
                 ELSE dDiags
    /\ chanClosed' = TRUE
    /\ UNCHANGED <<variant, cfgChannels, cfgMinVersion, cfgInclude, dpc, channels, prodPc,
                   prodOut, egErr, versionsSet, dState, requested, listed, dupListed, firstErr,
                   okAfterErr>>
    /\ UNCHANGED <<resVars, auxVars>>

\* The waiting goroutine: eg.Wait() returns once every goroutine has
\* returned; the group's error, if any, becomes a diagnostic; the channel is
\* closed.
WaitClose ==
    /\ dpc = "range"
    /\ ~chanClosed
    /\ \A i \in 1..Len(prodPc) : prodPc[i] = "done"
    /\ dDiags' = IF egErr /= <<>>
                 THEN Append(dDiags, Diag("Failed to list versions", egErr[1]))
                 ELSE dDiags
    /\ chanClosed' = TRUE
    /\ UNCHANGED <<variant, cfgChannels, cfgMinVersion, cfgInclude, dpc, channels, prodPc,
                   prodOut, egErr, versionsSet, dState, requested, listed, dupListed, firstErr,
                   okAfterErr>>
    /\ UNCHANGED <<resVars, auxVars>>

\* Read after the range loop, variant "channels": filter, sort, State.Set.
ReadFinish000 ==
    /\ dpc = "range"
    /\ chanClosed
    /\ variant = "channels"
    /\ \E order \in Orders(versionsSet) :
         LET versions == SemverSort(Filter000(order, cfgMinVersion))
         IN  dState' = [set |-> TRUE, versions |-> VersionAttrs(versions),
                        container_versions |-> <<>>]
    /\ dpc' = "done"
    /\ UNCHANGED <<variant, cfgChannels, cfgMinVersion, cfgInclude, channels, prodPc,
                   prodOut, egErr, chanClosed, versionsSet, dDiags, requested, listed,
                   dupListed, firstErr, okAfterErr>>
    /\ UNCHANGED <<resVars, auxVars>>

\* Read after the range loop, variant "prerelease": filter, sort, the
\* container versions, State.Set.
ReadFinish001 ==
    /\ dpc = "range"
    /\ chanClosed
    /\ variant = "prerelease"
    /\ \E order \in Orders(versionsSet) :
         LET versions == SemverSort(Filter001(order, cfgMinVersion, ValueBool(cfgInclude)))
         IN  \E corder \in Orders(ContainerVersionSet(versions)) :
               dState' = [set |-> TRUE, versions |-> VersionAttrs(versions),
                          container_versions |-> SortStrings(corder)]
    /\ dpc' = "done"
    /\ UNCHANGED <<variant, cfgChannels, cfgMinVersion, cfgInclude, channels, prodPc,
                   prodOut, egErr, chanClosed, versionsSet, dDiags, requested, listed,
                   dupListed, firstErr, okAfterErr>>
    /\ UNCHANGED <<resVars, auxVars>>

NextDart ==
    \/ ValidateConfig
    \/ ReadStart
    \/ \E i \in DOMAIN prodPc : ListOk(i)
    \/ \E i \in DOMAIN prodPc : ListFail(i)
    \/ \E i \in DOMAIN prodPc : Receive(i)
    \/ WaitClose
    \/ ReadFinish000
    \/ ReadFinish001

InitDart == DartInit /\ ResIdle /\ IdIdle /\ ProvIdle

SpecDart == InitDart /\ [][NextDart]_vars

\* The steps of Read's own goroutines: the rendezvous of a blocked send with
\* the range loop, the waiting goroutine, and Read after the loop.  The Go
\* scheduler runs a goroutine that can run; when a bucket request returns is
\* up to the network.
Goroutines ==
    \/ \E i \in DOMAIN prodPc : Receive(i)
    \/ WaitClose
    \/ ReadFinish000
    \/ ReadFinish001

SpecDartLive == InitDart /\ [][NextDart]_vars /\ WF_vars(Goroutines)

-----------------------------------------------------------------------------
(* Resource handlers: errors and diagnostics *)

Resources == {"service", "service_config", "service_rollout", "tenancy_unit", "service_project"}
Ops == {"Create", "Read", "Update", "Delete"}

\* The errors a cloud call or an operation wait may return.  kind: a gRPC
\* status error or any other error; code: the status code (Unknown for an
\* error that is no status); nf: the message contains "not found".
CloudErrors ==
    {[kind |-> "grpc", code |-> c, nf |-> t] : c \in {"NotFound", "Internal"}, t \in BOOLEAN}
    \cup {[kind |-> "plain", code |-> "Unknown", nf |-> t] : t \in BOOLEAN}

\* An error the provider itself makes (never one a cloud call returned).
LocalError(text) == [kind |-> "local", code |-> text, nf |-> FALSE]

\* The error a request made with a cancelled context returns (ctx.Err()).
CtxError == [kind |-> "plain", code |-> "context canceled", nf |-> FALSE]

\* resp.Diagnostics.AddError(summary, err.Error())
AddError(diags, summary, e) == Append(diags, Diag(summary, e))

\* status.FromError(err): ok
FromErrorOk(e) == e.kind = "grpc"

\* (variant of CreateSeesAbsent that lets Create go on after any error)
CreateSeesAbsentAlways(e) == TRUE

\* ServiceResource.Create: the GetService error that lets Create go on.
\* status.Code(err) == codes.NotFound || strings.Contains(err.Error(), "not found")
CreateSeesAbsent(e) == e.code = "NotFound" \/ e.nf

\* ServiceResource.Read and getTenancyUnit: the error taken for absence.
\* status.FromError(err); ok && (code == NotFound || Contains(err.String(), "not found"))
ReadSeesAbsent(e) == FromErrorOk(e) /\ (e.code = "NotFound" \/ e.nf)

\* ServiceRolloutResource.Read: ok && status.Code() == codes.NotFound
RolloutReadSeesAbsent(e) == FromErrorOk(e) /\ e.code = "NotFound"

\* getTenantProject, on the error of getTenancyUnit:
\* ok && s.Code() == codes.NotFound || strings.Contains(err.Error(), "not found")
ProjectSeesAbsent(e) == (FromErrorOk(e) /\ e.code = "NotFound") \/ e.nf

\* The cloud API reports "not found": a status error with code NotFound.
ReportsNotFound(e) == e.kind = "grpc" /\ e.code = "NotFound"

MaxPolls == 2       \* Operations.Get requests explored per poll loop
MaxCalls == 2       \* handler calls explored in one behaviour

-----------------------------------------------------------------------------
(* The tenant-project poll loop: for !op.Done { time.Sleep; Operations.Get } *)

\* time.Sleep(5 * time.Second)
SleepSeconds == 5

\* (variant of PollInterval that backs off linearly)
PollIntervalBackoff(n) == SleepSeconds * (n + 1)

\* The sleep before the (n+1)-th Operations.Get request.
PollInterval(n) == SleepSeconds

\* (variant of LoopContinues that gives up after one poll)
LoopContinuesTimeout(done, n) == ~done /\ n < 1

\* The loop condition `!op.Done`, after n polls.
LoopContinues(done, n) == ~done

\* (variant of DoFailsOnContext for a request made without the context)
DoFailsNever(ctxCancelled) == FALSE

\* Operations.Get(op.Name).Context(ctx).Do(): a request issued with a
\* cancelled context returns the context's error.
DoFailsOnContext(ctxCancelled) == ctxCancelled

-----------------------------------------------------------------------------
(* IDs: parseConfigId, newConfigId, newRolloutId.  A string is the sequence *)
(* of its characters.                                                        *)

\* strings.Split(id, "/")
RECURSIVE Split(_)
Split(s) ==
    IF s = <<>> THEN << <<>> >>
    ELSE IF Head(s) = "/" THEN << <<>> >> \o Split(Tail(s))
    ELSE LET r == Split(Tail(s))
         IN  << <<Head(s)>> \o Head(r) >> \o Tail(r)

\* (variant of ParseConfigId that takes the first two of any number of parts)
ParseConfigIdLoose(id) ==
    LET parts == Split(id)
    IN  IF Len(parts) < 2
        THEN [err |-> TRUE, service |-> <<>>, config |-> <<>>]
        ELSE [err |-> FALSE, service |-> parts[1], config |-> parts[2]]

\* parseConfigId: (serviceName, configId, err)
ParseConfigId(id) ==
    LET parts == Split(id)
    IN  IF Len(parts) /= 2
        THEN [err |-> TRUE, service |-> <<>>, config |-> <<>>]
        ELSE [err |-> FALSE, service |-> parts[1], config |-> parts[2]]

\* parseRolloutId: (serviceName, rolloutId, err)
ParseRolloutId(id) ==
    LET parts == Split(id)
    IN  IF Len(parts) /= 2
        THEN [err |-> TRUE, service |-> <<>>, rollout |-> <<>>]
        ELSE [err |-> FALSE, service |-> parts[1], rollout |-> parts[2]]

\* newConfigId and newRolloutId: serviceName + "/" + id
NewConfigId(serviceName, configId) == serviceName \o <<"/">> \o configId
NewRolloutId(serviceName, rolloutId) == serviceName \o <<"/">> \o rolloutId

-----------------------------------------------------------------------------
(* ServiceRolloutResource: Schema validators and createRollout, pure parts *)

\* (variant of ExactlyOneOf that only asks for at least one attribute)
AtLeastOneOf(configId, rolloutConfig) == ~configId.null \/ ~rolloutConfig.null

\* Schema: stringvalidator.ExactlyOneOf / mapvalidator.ExactlyOneOf over
\* config_id and rollout_config: exactly one of the two is not null.
ExactlyOneOf(configId, rolloutConfig) ==
    (~configId.null /\ rolloutConfig.null) \/ (configId.null /\ ~rolloutConfig.null)

\* percentages[k] = v on a Go map held as a set of <<key, value>> pairs.
MapPut(m, k, v) == {p \in m : p[1] /= k} \cup {<<k, v>>}

\* createRollout: `for k, v := range rawPercentages` over the map in
\* iteration order `order`, from the serviceName and percentages so far.
RECURSIVE RolloutLoop(_, _, _)
RolloutLoop(order, serviceName, percentages) ==
    IF order = <<>>
    THEN [err |-> "", service |-> serviceName, percentages |-> percentages]
    ELSE LET p == ParseConfigId(Head(order)[1])
         IN  IF p.err
             THEN [err |-> "ID format", service |-> <<>>, percentages |-> {}]
             ELSE IF serviceName = <<>>
             THEN RolloutLoop(Tail(order), p.service,
                              MapPut(percentages, p.config, Head(order)[2]))
             ELSE IF serviceName /= p.service
             THEN [err |-> "same service", service |-> <<>>, percentages |-> {}]
             ELSE RolloutLoop(Tail(order), serviceName,
                              MapPut(percentages, p.config, Head(order)[2]))

\* createRollout: percentages[configId] = 100
FullPercent == 100

\* createRollout up to the CreateServiceRollout call: the request's service
\* name and percentages, or the error that makes it return nil.
CreateRolloutRequest(configId, rolloutConfig, order) ==
    IF ~configId.null
    THEN LET p == ParseConfigId(configId.value)
         IN  IF p.err
             THEN [err |-> "ID format", service |-> <<>>, percentages |-> {}]
             ELSE [err |-> "", service |-> p.service,
                   percentages |-> {<<p.config, FullPercent>>}]
    ELSE RolloutLoop(order, <<>>, {})

\* The config IDs and rollout_config keys explored: well-formed IDs of two
\* services, an ID with an empty service name, and IDs of one and of three
\* parts.
IdInputs ==
    {<<"s", "/", "1">>, <<"s", "/", "2">>, <<"t", "/", "1">>, <<"/", "1">>,
     <<"s">>, <<"s", "/", "1", "/", "2">>}

ConfigIdInputs == {NullString} \cup {StringValue(s) : s \in IdInputs}

\* The `rollout_config` maps explored: null, empty, one key, two and three
\* keys of one service, keys of two services, a key with an empty service
\* name beside a key of a service, and keys of one and of three parts.
RolloutConfigInputs ==
    {NullMap} \cup
    {MapValue(m) : m \in
       {{},
        {<<<<"s", "/", "1">>, 70>>},
        {<<<<"s", "/", "1">>, 30>>, <<<<"s", "/", "2">>, 70>>},
        {<<<<"s", "/", "1">>, 30>>, <<<<"s", "/", "2">>, 30>>, <<<<"s", "/", "3">>, 40>>},
        {<<<<"s", "/", "1">>, 30>>, <<<<"t", "/", "1">>, 70>>},
        {<<<<"/", "1">>, 30>>, <<<<"s", "/", "1">>, 70>>},
        {<<<<"s">>, 70>>},
        {<<<<"s", "/", "1">>, 30>>, <<<<"s", "/", "1", "/", "2">>, 70>>}}}

-----------------------------------------------------------------------------
(* ServiceRolloutResource.Read: the state it writes *)

\* (variant of RolloutReadState that always fills rollout_config)
RolloutReadStateMap(data, serviceName, rawRolloutConfig) ==
    [data EXCEPT !.rollout_config = MapValue(rawRolloutConfig)]

\* Read from `rawRolloutConfig := ...GetPercentages()` to State.Set: the
\* attributes written, from those of the prior state, the service name of
\* the ID and the percentages of the remote rollout.
RolloutReadState(data, serviceName, rawRolloutConfig) ==
    IF data.config_id.null /\ data.rollout_config.null
    THEN IF Cardinality(rawRolloutConfig) = 1
         THEN LET configId == (CHOOSE e \in rawRolloutConfig : TRUE)[1]
              IN  [data EXCEPT !.config_id = StringValue(NewConfigId(serviceName, configId))]
         ELSE [data EXCEPT !.rollout_config = MapValue(rawRolloutConfig)]
    ELSE IF data.config_id.null
    THEN [data EXCEPT !.rollout_config = MapValue(rawRolloutConfig)]
    ELSE data

\* The state Create and Update write: the configuration.
RolloutConfigured(configId, rolloutConfig) ==
    [NoAttrs EXCEPT !.config_id = configId, !.rollout_config = rolloutConfig]

\* The percentages a rollout that was there before the first call may hold:
\* none (a rollout of another strategy), one entry, two entries.
PriorPercentages ==
    {{}, {<<<<"1">>, 100>>}, {<<<<"1">>, 30>>, <<<<"2">>, 70>>}}

\* The attributes of a rollout state that was there before the first call:
\* an imported one (only `id`), one with config_id, one with rollout_config.
PriorRolloutAttrs ==
    {NoAttrs,
     RolloutConfigured(StringValue(<<"s", "/", "0">>), NullMap),
     RolloutConfigured(NullString, MapValue({<<<<"s", "/", "1">>, 30>>, <<<<"s", "/", "2">>, 70>>}))}

-----------------------------------------------------------------------------
(* encoding/base64, StdEncoding, as createConfig and Read use it.  A byte is *)
(* a number in 0..255, a base64 text the sequence of its characters.         *)

\* The alphabet of StdEncoding, and its padding character.
B64Chars ==
    <<"A", "B", "C", "D", "E", "F", "G", "H", "I", "J", "K", "L", "M", "N", "O", "P",
      "Q", "R", "S", "T", "U", "V", "W", "X", "Y", "Z", "a", "b", "c", "d", "e", "f",
      "g", "h", "i", "j", "k", "l", "m", "n", "o", "p", "q", "r", "s", "t", "u", "v",
      "w", "x", "y", "z", "0", "1", "2", "3", "4", "5", "6", "7", "8", "9", "+", "/">>
B64Pad == "="

IsB64(c) == \E i \in 1..Len(B64Chars) : B64Chars[i] = c

\* The 6-bit value of an alphabet character.
B64Value(c) == (CHOOSE i \in 1..Len(B64Chars) : B64Chars[i] = c) - 1

B64Char(v) == B64Chars[v + 1]

\* (variant of EncodeToString without padding, as RawStdEncoding)
RECURSIVE EncodeToStringRaw(_)
EncodeToStringRaw(b) ==
    IF b = <<>> THEN <<>>
    ELSE LET k == IF Len(b) >= 3 THEN 3 ELSE Len(b)
             n == b[1] * 65536 + (IF k >= 2 THEN b[2] ELSE 0) * 256 + (IF k >= 3 THEN b[3] ELSE 0)
         IN  <<B64Char(n \div 262144), B64Char((n \div 4096) % 64)>>
             \o (IF k >= 2 THEN <<B64Char((n \div 64) % 64)>> ELSE <<>>)
             \o (IF k >= 3 THEN <<B64Char(n % 64)>> ELSE <<>>)
             \o EncodeToStringRaw(SubSeq(b, 4, Len(b)))

\* base64.StdEncoding.EncodeToString(b): three bytes make four characters;
\* a last group of one or two bytes is padded to four.
RECURSIVE EncodeToString(_)
EncodeToString(b) ==
    IF b = <<>> THEN <<>>
    ELSE LET k == IF Len(b) >= 3 THEN 3 ELSE Len(b)
             n == b[1] * 65536 + (IF k >= 2 THEN b[2] ELSE 0) * 256 + (IF k >= 3 THEN b[3] ELSE 0)
         IN  <<B64Char(n \div 262144), B64Char((n \div 4096) % 64)>>
             \o (IF k >= 2 THEN <<B64Char((n \div 64) % 64)>> ELSE <<B64Pad>>)
             \o (IF k >= 3 THEN <<B64Char(n % 64)>> ELSE <<B64Pad>>)
             \o EncodeToString(SubSeq(b, 4, Len(b)))

Decoded(err, bytes) == [err |-> err, bytes |-> bytes]

\* The decoding of the text once its line breaks are dropped, four characters
\* at a time: padding is allowed in the last group only, and the bits of the
\* last character that belong to no byte are dropped unchecked.
RECURSIVE DecodeQuanta(_)
DecodeQuanta(t) ==
    IF t = <<>> THEN Decoded(FALSE, <<>>)
    ELSE IF Len(t) < 4 THEN Decoded(TRUE, <<>>)
    ELSE LET rest == SubSeq(t, 5, Len(t))
         IN  IF \A j \in 1..4 : IsB64(t[j])
             THEN LET n == B64Value(t[1]) * 262144 + B64Value(t[2]) * 4096
                           + B64Value(t[3]) * 64 + B64Value(t[4])
                      r == DecodeQuanta(rest)
                  IN  IF r.err THEN Decoded(TRUE, <<>>)
                      ELSE Decoded(FALSE, <<n \div 65536, (n \div 256) % 256, n % 256>> \o r.bytes)
             ELSE IF IsB64(t[1]) /\ IsB64(t[2]) /\ t[3] = B64Pad /\ t[4] = B64Pad /\ rest = <<>>
             THEN Decoded(FALSE, <<(B64Value(t[1]) * 64 + B64Value(t[2])) \div 16>>)
             ELSE IF IsB64(t[1]) /\ IsB64(t[2]) /\ IsB64(t[3]) /\ t[4] = B64Pad /\ rest = <<>>
             THEN LET n == B64Value(t[1]) * 4096 + B64Value(t[2]) * 64 + B64Value(t[3])
                  IN  Decoded(FALSE, <<n \div 1024, (n \div 4) % 256>>)
             ELSE Decoded(TRUE, <<>>)

\* base64.StdEncoding.DecodeString(s): (bytes, err); "\r" and "\n" are
\* ignored wherever they stand.
DecodeString(t) == DecodeQuanta(SelectSeq(t, LAMBDA c : c \notin {"\n", "\r"}))

-----------------------------------------------------------------------------
(* ServiceConfigResource: the source files *)

\* A servicemanagementpb.ConfigFile as the cloud returns it, packed in an
\* Any: its type and contents; type "undecodable" stands for an Any that
\* UnmarshalTo rejects.
ConfigFile(type, contents) == [type |-> type, contents |-> contents]

\* createConfig: the two files of the SubmitConfigSource request.
SubmittedFiles(configYaml, proto) ==
    <<ConfigFile("SERVICE_CONFIG_YAML", configYaml),
      ConfigFile("FILE_DESCRIPTOR_SET_PROTO", proto)>>

\* The state Create and Update write: the plan.
ConfigConfigured(source) ==
    [NoAttrs EXCEPT !.config_yaml = StringValue(source.yaml),
                    !.proto_descriptor_base64 = StringValue(source.proto)]

SourceRead(attrs, unknown, err) == [attrs |-> attrs, unknown |-> unknown, err |-> err]

\* Read: `for _, sourceFile := range sourceFiles`, from the attributes so
\* far: the attributes after the loop, the number of "Unknown file type"
\* errors added, and whether UnmarshalTo failed (which ends Read).
RECURSIVE ReadSourceFiles(_, _, _)
ReadSourceFiles(files, data, unknown) ==
    IF files = <<>> THEN SourceRead(data, unknown, FALSE)
    ELSE LET file == Head(files)
         IN  CASE file.type = "undecodable" -> SourceRead(data, unknown, TRUE)
               [] file.type = "FILE_DESCRIPTOR_SET_PROTO" ->
                    ReadSourceFiles(Tail(files),
                                    [data EXCEPT !.proto_descriptor_base64 =
                                       StringValue(EncodeToString(file.contents))],
                                    unknown)
               [] file.type = "SERVICE_CONFIG_YAML" ->
                    ReadSourceFiles(Tail(files),
                                    [data EXCEPT !.config_yaml = StringValue(file.contents)],
                                    unknown)
               [] OTHER -> ReadSourceFiles(Tail(files), data, unknown + 1)

\* The `config_yaml` texts explored (UTF-8 bytes; string(b) and []byte(s)
\* change no byte).
YamlInputs == {<<97>>, <<97, 10>>}

\* The `proto_descriptor_base64` texts explored: the canonical encodings of
\* zero to three bytes, an encoding with unused bits set, one with a line
\* break, one with short padding, one with a character outside the alphabet.
ProtoInputs ==
    {<<>>,
     <<"Q", "Q", "=", "=">>,
     <<"Q", "U", "I", "=">>,
     <<"Q", "U", "J", "D">>,
     <<"Q", "R", "=", "=">>,
     <<"Q", "Q", "=", "=", "\n">>,
     <<"Q", "Q", "=">>,
     <<"Q", "!", "=", "=">>}

SourceInputs == {Source(y, d) : y \in YamlInputs, d \in ProtoInputs}

\* The source files a configuration that was there before the first call
\* may return: the two files in either order, with a file of another type,
\* an undecodable one, none.
PriorFiles ==
    {SubmittedFiles(<<97>>, <<65>>),
     <<ConfigFile("FILE_DESCRIPTOR_SET_PROTO", <<65, 66>>), ConfigFile("SERVICE_CONFIG_YAML", <<97>>)>>,
     <<ConfigFile("OPEN_API_YAML", <<97>>), ConfigFile("SERVICE_CONFIG_YAML", <<97>>)>>,
     <<ConfigFile("SERVICE_CONFIG_YAML", <<97>>), ConfigFile("undecodable", <<>>)>>,
     <<>>}

-----------------------------------------------------------------------------
(* getTenancyUnit and getTenantProject: the search of a listing *)

\* A letter in lower case (the letters of the names explored).
ToLower(c) ==
    CASE c = "T" -> "t"
      [] c = "U" -> "u"
      [] OTHER -> c

\* strings.EqualFold(a, b)
EqualFold(a, b) == Len(a) = Len(b) /\ \A i \in 1..Len(a) : ToLower(a[i]) = ToLower(b[i])

TenancyUnit(name, resources) == [name |-> name, resources |-> resources]
TenantResource(tag, name, status) == [tag |-> tag, resource |-> name, status |-> status]

\* getTenancyUnit after TenancyUnits.List: the first listed unit whose name
\* is `id` in any letter case, <<>> for nil.
RECURSIVE GetTenancyUnit(_, _)
GetTenancyUnit(units, id) ==
    IF units = <<>> THEN <<>>
    ELSE IF EqualFold(Head(units).name, id) THEN <<Head(units)>>
    ELSE GetTenancyUnit(Tail(units), id)

\* (variant of FirstTagged that takes the first resource whatever its tag)
FirstTaggedAnyTag(resources, tag) ==
    IF resources = <<>> THEN <<>> ELSE <<Head(resources)>>

\* getTenantProject: `for _, resource := range tenancyUnit.TenantResources`.
RECURSIVE FirstTagged(_, _)
FirstTagged(resources, tag) ==
    IF resources = <<>> THEN <<>>
    ELSE IF Head(resources).tag = tag THEN <<Head(resources)>>
    ELSE FirstTagged(Tail(resources), tag)

\* getTenantProject after the listing: <<>> for nil.
GetTenantProject(units, tenancyUnitID, tag) ==
    LET tenancyUnit == GetTenancyUnit(units, tenancyUnitID)
    IN  IF tenancyUnit = <<>> THEN <<>>
        ELSE FirstTagged(tenancyUnit[1].resources, tag)

\* data.TenancyUnit and data.Tag of the tenant project.
ProjectTenancyUnit == <<"t", "u">>
ProjectTag == "a"

\* The listings explored: no unit; only another unit; the unit without
\* resources, with a resource of another tag, with one of the tag, with one
\* of another tag before one of the tag, with two of the tag; the unit in
\* upper case after another unit; the unit listed in both letter cases.
ListResponses ==
    {<<>>,
     <<TenancyUnit(<<"o", "t">>, <<TenantResource("a", <<"p", "9">>, <<"ACTIVE">>)>>)>>,
     <<TenancyUnit(<<"t", "u">>, <<>>)>>,
     <<TenancyUnit(<<"t", "u">>, <<TenantResource("b", <<"p", "2">>, <<"ACTIVE">>)>>)>>,
     <<TenancyUnit(<<"t", "u">>, <<TenantResource("a", <<"p", "1">>, <<"ACTIVE">>)>>)>>,
     <<TenancyUnit(<<"t", "u">>, <<TenantResource("b", <<"p", "2">>, <<"ACTIVE">>),
                                  TenantResource("a", <<"p", "1">>, <<"PENDING_CREATE">>)>>)>>,
     <<TenancyUnit(<<"t", "u">>, <<TenantResource("a", <<"p", "1">>, <<"ACTIVE">>),
                                  TenantResource("a", <<"p", "3">>, <<"DELETED">>)>>)>>,
     <<TenancyUnit(<<"o", "t">>, <<TenantResource("a", <<"p", "9">>, <<"ACTIVE">>)>>),
       TenancyUnit(<<"T", "U">>, <<TenantResource("a", <<"p", "1">>, <<"ACTIVE">>)>>)>>,
     <<TenancyUnit(<<"T", "U">>, <<TenantResource("a", <<"p", "1">>, <<"ACTIVE">>)>>),
       TenancyUnit(<<"t", "u">>, <<TenantResource("a", <<"p", "3">>, <<"ACTIVE">>)>>)>>}

\* The state Create, Update and Read write for a project.
ProjectAttrs(data, project) == [data EXCEPT !.status = StringValue(project.status)]

-----------------------------------------------------------------------------
(* Resource handlers: the cloud, the start of a call, and the step helpers *)

\* A cloud API request: the method, and for CreateServiceRollout the service
\* name and the traffic percentages of the request.
Call(name) == [name |-> name, service |-> <<>>, percentages |-> {}, files |-> <<>>]
RolloutCall(serviceName, percentages) ==
    [name |-> "CreateServiceRollout", service |-> serviceName, percentages |-> percentages,
     files |-> <<>>]
SubmitCall(serviceName, files) ==
    [name |-> "SubmitConfigSource", service |-> serviceName, percentages |-> {},
     files |-> files]

\* What the cloud holds: rollouts and configurations, each with the ID the
\* cloud gave it.  The cloud gives a new object an ID no other object has.
RemoteObject(kind, serviceName, id) == [kind |-> kind, service |-> serviceName, id |-> id]
FreshId(store) == <<ToString(Len(store))>>
CloudAdd(store, kind, serviceName) ==
    Append(store, RemoteObject(kind, serviceName, FreshId(store)))

\* What an object of the cloud holds.  Of an object that was there before
\* the first call only the kind is known.
Held(percentages, files) == [known |-> TRUE, percentages |-> percentages, files |-> files]
HeldUnknown == [known |-> FALSE, percentages |-> {}, files |-> <<>>]

\* The objects the prior state of a rollout or configuration refers to.
PriorRemote == <<RemoteObject("rollout", <<"s">>, <<"0">>), RemoteObject("config", <<"s">>, <<"0">>)>>
PriorContent == <<HeldUnknown, HeldUnknown>>
PriorId == <<"s", "/", "0">>

\* The `id` a prior state may hold: the ID of an object, an imported text
\* that is no ID, or none.
PriorIds(r, o) ==
    IF o = "Read" /\ r \in {"service_rollout", "service_config"}
    THEN {PriorId, <<"s">>, <<>>}
    ELSE IF o = "Create" THEN {<<>>}
    ELSE {PriorId}

\* The attributes a prior state may hold.
PriorAttrs(r, o) ==
    IF o = "Read" /\ r = "service_rollout" THEN PriorRolloutAttrs ELSE {NoAttrs}

\* The percentages / source files the cloud returns for its i-th object.
PercentagesOf(store, i) == IF store[i].known THEN {store[i].percentages} ELSE PriorPercentages
FilesOf(store, i) == IF store[i].known THEN {store[i].files} ELSE PriorFiles

\* data.ServiceName of a service configuration.
ConfigServiceName == <<"s">>

HasRolloutConfig(r, o) == r = "service_rollout" /\ o \in {"Create", "Update"}
HasSource(r, o) == r = "service_config" /\ o \in {"Create", "Update"}

ResInit ==
    /\ resource \in Resources
    /\ op \in Ops
    /\ rpc = "start"
    /\ rDiags = <<>>
    /\ lDiags = <<>>
    \* Create starts from no state; Read, Update and Delete responses start
    \* from the prior state of the resource.
    /\ rState = IF op = "Create" THEN "none" ELSE "prior"
    /\ opDone = FALSE
    /\ polls = 0
    /\ cfgConfigId \in IF HasRolloutConfig(resource, op) THEN ConfigIdInputs ELSE {NullString}
    /\ cfgRolloutConfig \in IF HasRolloutConfig(resource, op) THEN RolloutConfigInputs ELSE {NullMap}
    /\ rId \in PriorIds(resource, op)
    /\ cancelled = FALSE
    /\ remote = PriorRemote
    /\ ncalls = 1
    /\ cfgSource \in IF HasSource(resource, op) THEN SourceInputs ELSE {NoSource}
    /\ content = PriorContent
    /\ rAttrs \in PriorAttrs(resource, op)
    /\ chained = FALSE
    /\ answer = NoAnswer
    /\ returned = {}
    /\ notFound = FALSE
    /\ sleeps = <<>>
    /\ opFailed = FALSE
    /\ calls = <<>>

DartIdle ==
    /\ variant = "none"
    /\ cfgChannels = NullList
    /\ cfgMinVersion = <<0, 0, 0, 0>>
    /\ cfgInclude = "null"
    /\ dpc = "idle"
    /\ channels = <<>>
    /\ prodPc = <<>>
    /\ prodOut = <<>>
    /\ egErr = <<>>
    /\ chanClosed = FALSE
    /\ versionsSet = {}
    /\ dDiags = <<>>
    /\ dState = NoState
    /\ requested = [c \in AllChannels |-> 0]
    /\ listed = {}
    /\ dupListed = FALSE
    /\ firstErr = <<>>
    /\ okAfterErr = FALSE

\* A step of a handler: its position, its diagnostics, its state, and the
\* error (if any) the cloud returned to it in this step.
Step(pc, diags, state, errs) ==
    /\ rpc' = pc
    /\ rDiags' = diags
    /\ rState' = state
    /\ returned' = returned \cup errs
    /\ UNCHANGED <<dartVars, auxVars>>

At(r, o, pc) == resource = r /\ op = o /\ rpc = pc

Fixed == UNCHANGED <<resource, op, cfgConfigId, cfgRolloutConfig, cancelled, ncalls,
                     cfgSource, chained>>

Plain ==
    /\ Fixed
    /\ UNCHANGED <<lDiags, opDone, polls, notFound, sleeps, opFailed>>

\* A Read step: as Plain, and the step records whether the cloud reported
\* the resource as not found.
Seen(nf) ==
    /\ notFound' = (notFound \/ nf)
    /\ Fixed
    /\ UNCHANGED <<lDiags, opDone, polls, sleeps, opFailed>>

\* The step issues one cloud API request and changes nothing in the cloud.
Request(name) ==
    /\ calls' = Append(calls, Call(name))
    /\ UNCHANGED <<remote, content>>

\* As Request, and the step writes no attribute of the state and receives
\* no payload.
Issue(name) ==
    /\ Request(name)
    /\ UNCHANGED <<rId, rAttrs, answer>>

\* The step issues no cloud API request.
NoRequest == UNCHANGED <<calls, remote, content, rId, rAttrs, answer>>

-----------------------------------------------------------------------------
(* resource_service.go *)

\* Create: the GetService existence check.
ServiceCreateGetService ==
    /\ At("service", "Create", "start")
    /\ \/ Step("done", AddError(rDiags, "Service already exists", LocalError("already exists")),
              rState, {})
       \/ \E e \in CloudErrors :
            IF CreateSeesAbsent(e)
            THEN Step("CreateService", rDiags, rState, {e})
            ELSE Step("done", AddError(rDiags, "Error getting service", e), rState, {e})
    /\ Issue("GetService")
    /\ Plain

\* Create: the CreateService call.
ServiceCreateCreateService ==
    /\ At("service", "Create", "CreateService")
    /\ \/ Step("Wait", rDiags, rState, {})
       \/ \E e \in CloudErrors :
            Step("done", AddError(rDiags, "Error creating service", e), rState, {e})
    /\ Issue("CreateService")
    /\ Plain

\* Create: serviceOp.Wait, then State.Set.
ServiceCreateWait ==
    /\ At("service", "Create", "Wait")
    /\ \/ Step("done", rDiags, "written", {})
       \/ \E e \in CloudErrors :
            Step("done", AddError(rDiags, "Error creating service", e), rState, {e})
    /\ NoRequest
    /\ Plain

\* Read: GetService, then State.Set or a return.
ServiceRead ==
    /\ At("service", "Read", "start")
    /\ \/ Step("done", rDiags, "written", {}) /\ Seen(FALSE)
       \/ \E e \in CloudErrors :
            /\ IF ReadSeesAbsent(e)
               THEN Step("done", rDiags, rState, {e})
               ELSE Step("done", AddError(rDiags, "Could not retrieve service", e), rState, {e})
            /\ Seen(ReportsNotFound(e))
    /\ Issue("GetService")

\* Update: panic("Updating a service is not supported").
ServiceUpdate ==
    /\ At("service", "Update", "start")
    /\ Step("panic", rDiags, rState, {})
    /\ NoRequest
    /\ Plain

\* Delete: the DeleteService call.
ServiceDeleteDeleteService ==
    /\ At("service", "Delete", "start")
    /\ \/ Step("Wait", rDiags, rState, {})
       \/ \E e \in CloudErrors :
            Step("done", AddError(rDiags, "Error deleting service", e), rState, {e})
    /\ Issue("DeleteService")
    /\ Plain

\* Delete: op.Wait, then State.Set of an empty model.
ServiceDeleteWait ==
    /\ At("service", "Delete", "Wait")
    /\ \/ Step("done", rDiags, "empty", {})
       \/ \E e \in CloudErrors :
            Step("done", AddError(rDiags, "Error deleting service", e), rState, {e})
    /\ NoRequest
    /\ Plain

-----------------------------------------------------------------------------
(* resource_service_configuration.go *)

\* Create and Update, createConfig: the base64 decoding and SubmitConfigSource.
ConfigSubmit ==
    /\ resource = "service_config" /\ op \in {"Create", "Update"} /\ rpc = "start"
    /\ LET proto == DecodeString(cfgSource.proto)
       IN  IF proto.err
           THEN /\ Step("done", AddError(rDiags, "Could not submit configuration source",
                                         LocalError("could not decode proto descriptor")),
                        rState, {})
                /\ NoRequest
           ELSE /\ \/ Step("Wait", rDiags, rState, {})
                   \/ \E e \in CloudErrors :
                        Step("done", AddError(rDiags, "Could not submit configuration source", e),
                             rState, {e})
                /\ calls' = Append(calls, SubmitCall(ConfigServiceName,
                                                     SubmittedFiles(cfgSource.yaml, proto.bytes)))
                /\ UNCHANGED <<remote, content, rId, rAttrs, answer>>
    /\ Plain

\* Create and Update, createConfig: configOp.Wait, then newConfigId and
\* State.Set.  The operation that succeeds has added the configuration to the
\* cloud; one whose wait fails may or may not have.
ConfigWait ==
    /\ resource = "service_config" /\ op \in {"Create", "Update"} /\ rpc = "Wait"
    /\ LET held == Held({}, calls[Len(calls)].files)
       IN  \/ /\ Step("done", rDiags, "written", {})
              /\ remote' = CloudAdd(remote, "config", ConfigServiceName)
              /\ content' = Append(content, held)
              /\ rId' = NewConfigId(ConfigServiceName, FreshId(remote))
              /\ rAttrs' = ConfigConfigured(cfgSource)
           \/ /\ \E e \in CloudErrors :
                   Step("done", AddError(rDiags, "Could not submit configuration source", e),
                        rState, {e})
              /\ \/ remote' = remote /\ content' = content
                 \/ /\ remote' = CloudAdd(remote, "config", ConfigServiceName)
                    /\ content' = Append(content, held)
              /\ UNCHANGED <<rId, rAttrs>>
    /\ UNCHANGED <<calls, answer>>
    /\ Plain

\* Read: parseConfigId, GetServiceConfig, the source files, State.Set.
ConfigRead ==
    /\ At("service_config", "Read", "start")
    /\ LET p == ParseConfigId(rId)
       IN  IF p.err
           THEN /\ Step("done", AddError(rDiags, "Invalid config ID", LocalError("ID format")),
                        rState, {})
                /\ Seen(FALSE)
                /\ NoRequest
           ELSE /\ Request("GetServiceConfig")
                /\ \/ /\ \E e \in CloudErrors :
                          /\ Step("done", AddError(rDiags,
                                     "Could not retrieve configuration for service", e),
                                  rState, {e})
                          /\ Seen(ReportsNotFound(e))
                      /\ UNCHANGED <<rId, rAttrs, answer>>
                   \/ \E i \in 1..Len(remote) :
                        /\ remote[i] = RemoteObject("config", p.service, p.config)
                        /\ \E files \in FilesOf(content, i) :
                             LET r == ReadSourceFiles(files, rAttrs, 0)
                                 unknown == [k \in 1..r.unknown |->
                                               Diag("Unknown file type", LocalError("file type"))]
                             IN  /\ answer' = Answer("config", {}, files, <<>>)
                                 /\ Seen(FALSE)
                                 /\ IF r.err
                                    THEN /\ Step("done",
                                                 AddError(rDiags \o unknown,
                                                          "Could not unmarshal source file",
                                                          LocalError("unmarshal")),
                                                 rState, {})
                                         /\ UNCHANGED <<rId, rAttrs>>
                                    ELSE /\ Step("done", rDiags \o unknown, "written", {})
                                         /\ rId' = NewConfigId(remote[i].service, remote[i].id)
                                         /\ rAttrs' = r.attrs

\* Delete: nothing to do.
ConfigDelete ==
    /\ At("service_config", "Delete", "start")
    /\ Step("done", rDiags, rState, {})
    /\ NoRequest
    /\ Plain

-----------------------------------------------------------------------------
(* resource_service_rollout.go *)

\* Config validation, which precedes Create and Update: a configuration the
\* ExactlyOneOf validators reject never reaches the handler.
RolloutValidate ==
    /\ resource = "service_rollout" /\ op \in {"Create", "Update"} /\ rpc = "start"
    /\ IF ExactlyOneOf(cfgConfigId, cfgRolloutConfig)
       THEN Step("validated", rDiags, rState, {})
       ELSE Step("rejected", AddError(rDiags, "Invalid Attribute Combination",
                                      LocalError("exactly one of")), rState, {})
    /\ NoRequest
    /\ Plain

\* Create and Update after createRollout has returned: the handler looks at
\* resp.Diagnostics, and then dereferences the rollout ID.
AfterCreateRollout(isNil, errs) ==
    IF HasError(rDiags) THEN Step("done", rDiags, rState, errs)
    ELSE IF isNil THEN Step("panic", rDiags, rState, errs)
    ELSE Step("done", rDiags, "written", errs)

\* Create and Update, createRollout up to CreateServiceRollout.  The
\* parameter `diagnostics` is the slice resp.Diagnostics passed by value:
\* what createRollout adds to it is added to its own copy.
RolloutCreateServiceRollout ==
    /\ resource = "service_rollout" /\ op \in {"Create", "Update"} /\ rpc = "validated"
    /\ \E order \in Orders(cfgRolloutConfig.elems) :
         LET q == CreateRolloutRequest(cfgConfigId, cfgRolloutConfig, order)
         IN  IF q.err /= ""
             THEN /\ lDiags' = AddError(rDiags, "Invalid config ID", LocalError(q.err))
                  /\ AfterCreateRollout(TRUE, {})
                  /\ NoRequest
             ELSE /\ calls' = Append(calls, RolloutCall(q.service, q.percentages))
                  /\ UNCHANGED <<remote, content, rId, rAttrs, answer>>
                  /\ \/ /\ lDiags' = rDiags
                        /\ Step("Wait", rDiags, rState, {})
                     \/ \E e \in CloudErrors :
                          /\ lDiags' = AddError(rDiags, "Error creating service rollout", e)
                          /\ AfterCreateRollout(TRUE, {e})
    /\ Fixed
    /\ UNCHANGED <<opDone, polls, notFound, sleeps, opFailed>>

\* Create and Update, createRollout: rolloutOp.Wait, newRolloutId, the
\* return to the handler, and State.Set.  The operation that succeeds has
\* added the rollout to the cloud; one whose wait fails may or may not have.
RolloutWait ==
    /\ resource = "service_rollout" /\ op \in {"Create", "Update"} /\ rpc = "Wait"
    /\ LET serviceName == calls[Len(calls)].service
           held == Held(calls[Len(calls)].percentages, <<>>)
       IN  \/ /\ lDiags' = lDiags
              /\ AfterCreateRollout(FALSE, {})
              /\ remote' = CloudAdd(remote, "rollout", serviceName)
              /\ content' = Append(content, held)
              /\ rId' = IF HasError(rDiags) THEN rId
                        ELSE NewRolloutId(serviceName, FreshId(remote))
              /\ rAttrs' = IF HasError(rDiags) THEN rAttrs
                           ELSE RolloutConfigured(cfgConfigId, cfgRolloutConfig)
           \/ /\ \E e \in CloudErrors :
                   /\ lDiags' = AddError(lDiags, "Error creating service rollout", e)
                   /\ AfterCreateRollout(TRUE, {e})
              /\ \/ remote' = remote /\ content' = content
                 \/ /\ remote' = CloudAdd(remote, "rollout", serviceName)
                    /\ content' = Append(content, held)
              /\ UNCHANGED <<rId, rAttrs>>
    /\ UNCHANGED <<calls, answer>>
    /\ Fixed
    /\ UNCHANGED <<opDone, polls, notFound, sleeps, opFailed>>

\* Read: the null ID, parseRolloutId, GetServiceRollout, State.Set.
RolloutRead ==
    /\ At("service_rollout", "Read", "start")
    /\ LET p == ParseRolloutId(rId)
       IN  IF rId = <<>>
           THEN Step("done", rDiags, rState, {}) /\ Seen(FALSE) /\ NoRequest
           ELSE IF p.err
           THEN /\ Step("done", AddError(rDiags, "Invalid ID", LocalError("ID format")),
                        rState, {})
                /\ Seen(FALSE)
                /\ NoRequest
           ELSE /\ Request("GetServiceRollout")
                /\ \/ /\ \E e \in CloudErrors :
                          /\ IF RolloutReadSeesAbsent(e)
                             THEN Step("done", rDiags, rState, {e})
                             ELSE Step("done",
                                       AddError(rDiags, "Error reading service rollout", e),
                                       rState, {e})
                          /\ Seen(ReportsNotFound(e))
                      /\ UNCHANGED <<rId, rAttrs, answer>>
                   \/ \E i \in 1..Len(remote) :
                        /\ remote[i] = RemoteObject("rollout", p.service, p.rollout)
                        /\ \E rawRolloutConfig \in PercentagesOf(content, i) :
                             /\ answer' = Answer("rollout", rawRolloutConfig, <<>>, <<>>)
                             /\ rAttrs' = RolloutReadState(rAttrs, p.service, rawRolloutConfig)
                        /\ Step("done", rDiags, "written", {})
                        /\ Seen(FALSE)
                        /\ rId' = rId

\* (variant of RolloutDelete that asks the cloud to drop the newest rollout)
RolloutDeleteRemoves ==
    /\ At("service_rollout", "Delete", "start")
    /\ Step("done", rDiags, rState, {})
    /\ calls' = Append(calls, Call("DeleteServiceRollout"))
    /\ remote' = SubSeq(remote, 1, Len(remote) - 1)
    /\ content' = SubSeq(content, 1, Len(content) - 1)
    /\ UNCHANGED <<rId, rAttrs, answer>>
    /\ Plain

\* Delete: a no-op.
RolloutDelete ==
    /\ At("service_rollout", "Delete", "start")
    /\ Step("done", rDiags, rState, {})
    /\ NoRequest
    /\ Plain

-----------------------------------------------------------------------------
(* resource_tenancy_unit.go *)

\* Create: TenancyUnits.Create, then State.Set.
TenancyCreate ==
    /\ At("tenancy_unit", "Create", "start")
    /\ \/ Step("done", rDiags, "written", {})
       \/ \E e \in CloudErrors :
            Step("done", AddError(rDiags, "Error creating tenancy unit", e), rState, {e})
    /\ Issue("TenancyUnits.Create")
    /\ Plain

\* Read: getTenancyUnit (TenancyUnits.List and the search by name), then
\* State.Set or a return.
TenancyRead ==
    /\ At("tenancy_unit", "Read", "start")
    /\ \/ Step("done", rDiags, "written", {}) /\ Seen(FALSE)
       \/ Step("done", rDiags, rState, {}) /\ Seen(TRUE)
       \/ \E e \in CloudErrors :
            /\ IF ReadSeesAbsent(e)
               THEN Step("done", rDiags, rState, {e})
               ELSE Step("done", AddError(rDiags, "Error getting tenancy unit", e), rState, {e})
            /\ Seen(ReportsNotFound(e))
    /\ Issue("TenancyUnits.List")

\* Update: panic("Updating a service is not supported").
TenancyUpdate ==
    /\ At("tenancy_unit", "Update", "start")
    /\ Step("panic", rDiags, rState, {})
    /\ NoRequest
    /\ Plain

\* Delete: TenancyUnits.Delete.
TenancyDelete ==
    /\ At("tenancy_unit", "Delete", "start")
    /\ \/ Step("done", rDiags, rState, {})
       \/ \E e \in CloudErrors :
            Step("done", AddError(rDiags, "Error deleting tenancy unit", e), rState, {e})
    /\ Issue("TenancyUnits.Delete")
    /\ Plain

-----------------------------------------------------------------------------
(* util.go: the tenant project resource *)

\* getTenantProject answers an error of TenancyUnits.List with "no project"
\* when getTenancyUnit or getTenantProject itself takes it for absence.
LookupSeesAbsent(e) == ReadSeesAbsent(e) \/ ProjectSeesAbsent(e)

\* op.Done and op.Error of the operation a response carries: an operation
\* that is done has succeeded or failed.
OpResults(mustFinish) ==
    {[done |-> d, failed |-> f] : d \in (IF mustFinish THEN {TRUE} ELSE BOOLEAN), f \in BOOLEAN}
      \ {[done |-> FALSE, failed |-> TRUE]}

StartSummary ==
    CASE op = "Create" -> "Error adding project"
      [] op = "Update" -> "Error updating project"
      [] OTHER -> "Error removing project"

StartCall ==
    CASE op = "Create" -> "TenancyUnits.AddProject"
      [] op = "Update" -> "TenancyUnits.ApplyProjectConfig"
      [] OTHER -> "TenancyUnits.RemoveProject"

\* Create, Update and Delete: the AddProject, ApplyProjectConfig or
\* RemoveProject call, which returns the operation to poll.
ProjectStart ==
    /\ resource = "service_project" /\ op \in {"Create", "Update", "Delete"} /\ rpc = "start"
    /\ \/ /\ Step("poll", rDiags, rState, {})
          /\ \E r \in OpResults(FALSE) : opDone' = r.done /\ opFailed' = r.failed
       \/ /\ \E e \in CloudErrors :
               Step("done", AddError(rDiags, StartSummary, e), rState, {e})
          /\ UNCHANGED <<opDone, opFailed>>
    /\ Issue(StartCall)
    /\ Fixed
    /\ UNCHANGED <<lDiags, polls, notFound, sleeps>>

\* One turn of `for !op.Done`, first half: time.Sleep, then the
\* Operations.Get request is issued with ctx.
ProjectSleep ==
    /\ resource = "service_project" /\ rpc = "poll" /\ LoopContinues(opDone, polls)
    /\ sleeps' = Append(sleeps, PollInterval(polls))
    /\ polls' = polls + 1
    /\ IF DoFailsOnContext(cancelled)
       THEN Step("done", AddError(rDiags, "Error getting operation", CtxError), rState, {CtxError})
       ELSE Step("get", rDiags, rState, {})
    /\ Issue("Operations.Get")
    /\ Fixed
    /\ UNCHANGED <<lDiags, opDone, notFound, opFailed>>

\* One turn of `for !op.Done`, second half: the response to Operations.Get.
\* A context cancelled while the request is in flight may fail the request.
ProjectGet ==
    /\ resource = "service_project" /\ rpc = "get"
    /\ \/ /\ Step("poll", rDiags, rState, {})
          /\ \E r \in OpResults(polls >= MaxPolls) : opDone' = r.done /\ opFailed' = r.failed
       \/ /\ \E e \in CloudErrors \cup {x \in {CtxError} : DoFailsOnContext(cancelled)} :
               Step("done", AddError(rDiags, "Error getting operation", e), rState, {e})
          /\ UNCHANGED <<opDone, opFailed>>
    /\ NoRequest
    /\ Fixed
    /\ UNCHANGED <<lDiags, polls, notFound, sleeps>>

\* The request context is cancelled while the operation is being polled.
Cancel ==
    /\ resource = "service_project" /\ rpc \in {"poll", "get"} /\ ~opDone
    /\ ~cancelled
    /\ cancelled' = TRUE
    /\ UNCHANGED <<resource, op, rpc, rDiags, lDiags, rState, opDone, polls, cfgConfigId,
                   cfgRolloutConfig, rId, remote, ncalls, cfgSource, content, rAttrs,
                   chained, returned, notFound, sleeps, opFailed, calls, answer>>
    /\ UNCHANGED <<dartVars, auxVars>>

\* Create and Update after the loop: getTenantProject (TenancyUnits.List with
\* ctx), then State.Set, or panic("project not found").
ProjectLookup ==
    /\ resource = "service_project" /\ op \in {"Create", "Update"} /\ rpc = "poll"
    /\ ~LoopContinues(opDone, polls)
    /\ IF DoFailsOnContext(cancelled)
       THEN /\ Step("done", AddError(rDiags, "Error getting project", CtxError), rState,
                    {CtxError})
            /\ UNCHANGED <<rId, rAttrs, answer>>
       ELSE \/ \E units \in ListResponses :
                 LET project == GetTenantProject(units, ProjectTenancyUnit, ProjectTag)
                 IN  /\ answer' = Answer("units", {}, <<>>, units)
                     /\ IF project = <<>>
                        THEN Step("panic", rDiags, rState, {}) /\ UNCHANGED <<rId, rAttrs>>
                        ELSE /\ Step("done", rDiags, "written", {})
                             /\ rId' = project[1].resource
                             /\ rAttrs' = ProjectAttrs(rAttrs, project[1])
            \/ /\ \E e \in CloudErrors :
                    IF LookupSeesAbsent(e)
                    THEN Step("panic", rDiags, rState, {e})
                    ELSE Step("done", AddError(rDiags, "Error getting project", e), rState, {e})
               /\ UNCHANGED <<rId, rAttrs, answer>>
    /\ Request("TenancyUnits.List")
    /\ Plain

\* Delete after the loop: the handler returns.
ProjectDeleteDone ==
    /\ resource = "service_project" /\ op = "Delete" /\ rpc = "poll"
    /\ ~LoopContinues(opDone, polls)
    /\ Step("done", rDiags, rState, {})
    /\ NoRequest
    /\ Plain

\* Read: getTenantProject, then State.Set or a return.
ProjectRead ==
    /\ At("service_project", "Read", "start")
    /\ \/ \E units \in ListResponses :
            LET project == GetTenantProject(units, ProjectTenancyUnit, ProjectTag)
            IN  /\ answer' = Answer("units", {}, <<>>, units)
                /\ IF project = <<>>
                   THEN /\ Step("done", rDiags, rState, {})
                        /\ Seen(TRUE)
                        /\ UNCHANGED <<rId, rAttrs>>
                   ELSE /\ Step("done", rDiags, "written", {})
                        /\ Seen(FALSE)
                        /\ rId' = project[1].resource
                        /\ rAttrs' = ProjectAttrs(rAttrs, project[1])
       \/ /\ \E e \in CloudErrors :
               /\ IF LookupSeesAbsent(e)
                  THEN Step("done", rDiags, rState, {e})
                  ELSE Step("done", AddError(rDiags, "Error getting project", e), rState, {e})
               /\ Seen(ReportsNotFound(e))
          /\ UNCHANGED <<rId, rAttrs, answer>>
    /\ Request("TenancyUnits.List")

-----------------------------------------------------------------------------
(* Resource handlers: the next call, and the specifications *)

\* Terraform calls the next handler once the last one has returned (or its
\* configuration was rejected, or the provider has crashed and restarted);
\* the cloud keeps what it holds.
NextCall ==
    /\ rpc \in {"done", "panic", "rejected"}
    /\ ncalls < MaxCalls
    /\ ncalls' = ncalls + 1
    /\ resource' \in Resources
    /\ op' \in Ops
    /\ rpc' = "start"
    /\ rDiags' = <<>>
    /\ lDiags' = <<>>
    /\ rState' = IF op' = "Create" THEN "none" ELSE "prior"
    /\ opDone' = FALSE
    /\ polls' = 0
    /\ cfgConfigId' \in IF HasRolloutConfig(resource', op') THEN ConfigIdInputs ELSE {NullString}
    /\ cfgRolloutConfig' \in IF HasRolloutConfig(resource', op') THEN RolloutConfigInputs
                             ELSE {NullMap}
    /\ cfgSource' \in IF HasSource(resource', op') THEN SourceInputs ELSE {NoSource}
    \* The prior state of a Read is the state the last call wrote, or one
    \* that was there before the first call.
    /\ \/ /\ chained' = TRUE
          /\ resource' = resource /\ op' = "Read"
          /\ resource \in {"service_rollout", "service_config"}
          /\ op \in {"Create", "Update"} /\ rState = "written"
          /\ UNCHANGED <<rId, rAttrs>>
       \/ /\ chained' = FALSE
          /\ rId' \in PriorIds(resource', op')
          /\ rAttrs' \in PriorAttrs(resource', op')
    /\ cancelled' = FALSE
    /\ remote' = remote
    /\ content' = content
    /\ answer' = NoAnswer
    /\ returned' = {}
    /\ notFound' = FALSE
    /\ sleeps' = <<>>
    /\ opFailed' = FALSE
    /\ calls' = <<>>
    /\ UNCHANGED <<dartVars, auxVars>>

\* The steps of the handler itself.
Handler ==
    \/ ServiceCreateGetService
    \/ ServiceCreateCreateService
    \/ ServiceCreateWait
    \/ ServiceRead
    \/ ServiceUpdate
    \/ ServiceDeleteDeleteService
    \/ ServiceDeleteWait
    \/ ConfigSubmit
    \/ ConfigWait
    \/ ConfigRead
    \/ ConfigDelete
    \/ RolloutValidate
    \/ RolloutCreateServiceRollout
    \/ RolloutWait
    \/ RolloutRead
    \/ RolloutDelete
    \/ TenancyCreate
    \/ TenancyRead
    \/ TenancyUpdate
    \/ TenancyDelete
    \/ ProjectStart
    \/ ProjectSleep
    \/ ProjectGet
    \/ ProjectLookup
    \/ ProjectDeleteDone
    \/ ProjectRead

NextRes ==
    \/ Handler
    \/ Cancel
    \/ NextCall

InitRes == ResInit /\ DartIdle /\ IdIdle /\ ProvIdle

SpecRes == InitRes /\ [][NextRes]_vars

\* A handler is one goroutine that runs until it returns: a handler that can
\* take a step takes it.
SpecResLive == InitRes /\ [][NextRes]_vars /\ WF_vars(Handler)

-----------------------------------------------------------------------------
(* IDs: newConfigId / newRolloutId and parseConfigId / parseRolloutId applied *)
(* to ID strings.                                                             *)

MaxIdLen == 3       \* longest ID string, and longest part an ID is made from

\* The characters of the ID strings explored.
IdChars == {"s", "1", "/"}

\* Every string an `id` attribute may hold.
IdStrings == SeqsUpTo(IdChars, MaxIdLen)

\* The service names and config / rollout IDs an ID is made from: the cloud's
\* names hold no "/".
IdPartStrings == SeqsUpTo(IdChars \ {"/"}, MaxIdLen)

\* Either an ID string as the state or the configuration holds it, or the
\* two parts the provider is about to join.
IdInit ==
    /\ idPc \in {"parts", "input"}
    /\ idParts \in IF idPc = "parts" THEN IdPartStrings \X IdPartStrings ELSE {<<<<>>, <<>>>>}
    /\ idIn \in IF idPc = "input" THEN IdStrings ELSE {<<>>}
    /\ idMade = "none"
    /\ idOut = NoParse

IdFixed == UNCHANGED <<dartVars, resVars, provVars>>

\* newConfigId(serviceName, configId)
NewConfigIdStep ==
    /\ idPc = "parts"
    /\ idIn' = NewConfigId(idParts[1], idParts[2])
    /\ idMade' = "config"
    /\ idPc' = "input"
    /\ UNCHANGED <<idParts, idOut>>
    /\ IdFixed

\* newRolloutId(serviceName, rolloutId)
NewRolloutIdStep ==
    /\ idPc = "parts"
    /\ idIn' = NewRolloutId(idParts[1], idParts[2])
    /\ idMade' = "rollout"
    /\ idPc' = "input"
    /\ UNCHANGED <<idParts, idOut>>
    /\ IdFixed

\* parseConfigId(id), as the Read of the configuration resource and of the
\* configuration data source call it on the `id` of the state.
ParseConfigIdStep ==
    /\ idPc = "input"
    /\ idMade \in {"none", "config"}
    /\ LET p == ParseConfigId(idIn)
       IN  idOut' = Parsed("config", IF p.err THEN "invalid config ID format" ELSE "",
                           p.service, p.config)
    /\ idPc' = "parsed"
    /\ UNCHANGED <<idParts, idIn, idMade>>
    /\ IdFixed

\* parseRolloutId(id), as the Read of the rollout resource calls it.
ParseRolloutIdStep ==
    /\ idPc = "input"
    /\ idMade \in {"none", "rollout"}
    /\ LET p == ParseRolloutId(idIn)
       IN  idOut' = Parsed("rollout", IF p.err THEN "invalid rollout ID format" ELSE "",
                           p.service, p.rollout)
    /\ idPc' = "parsed"
    /\ UNCHANGED <<idParts, idIn, idMade>>
    /\ IdFixed

NextId ==
    \/ NewConfigIdStep
    \/ NewRolloutIdStep
    \/ ParseConfigIdStep
    \/ ParseRolloutIdStep

InitId == IdInit /\ DartIdle /\ ResIdle /\ ProvIdle

SpecId == InitId /\ [][NextId]_vars

-----------------------------------------------------------------------------
(* UtilsProvider.Configure, and the Configure of a resource that receives   *)
(* the provider data.                                                        *)

\* The values a provider attribute (types.String) may take.
AttrStates == {"null", "unknown", "value"}

\* !v.IsUnknown() && !v.IsNull()
IsSet(v) == v /= "unknown" /\ v /= "null"

\* The clients Configure constructs, in the order it constructs them.
Clients == <<"ServiceManagerClient", "TenantClient", "OperationsClient">>

\* The summary of the error diagnostic for a failed construction.
ClientErrorSummary(c) ==
    CASE c = "ServiceManagerClient" -> "Could not create service manager client"
      [] c = "TenantClient" -> "Could not create tenant client"
      [] c = "OperationsClient" -> "Could not create operations client"

\* (variant of FoundGoogleCreds that never looks for default credentials)
FoundGoogleCredsTokenOnly(accessToken, defaultFound) == IsSet(accessToken)

\* The switch that sets foundGoogleCreds: the access token when it is set,
\* otherwise the default credentials when they are found.
FoundGoogleCreds(accessToken, defaultFound) == IsSet(accessToken) \/ defaultFound

\* &UtilsProviderConfig{...}: the three clients.
ProviderConfig == [c \in Range(Clients) |-> "client"]

ProvInit ==
    /\ provPc = "start"
    /\ cfgProjectId \in AttrStates
    /\ cfgAccessToken \in AttrStates
    /\ defaultCreds \in BOOLEAN
    /\ clientErrs \in SUBSET Range(Clients)
    /\ dialOpts = {}
    /\ pDiags = <<>>
    /\ resourceData = <<>>
    /\ dataSourceData = <<>>
    /\ resClients = <<>>
    /\ attempts = <<>>

ProvFixed ==
    /\ UNCHANGED <<cfgProjectId, cfgAccessToken, defaultCreds, clientErrs, resClients>>
    /\ UNCHANGED <<dartVars, resVars, idVars>>

\* Configure up to `if !foundGoogleCreds { return }`.
ResolveCredentials ==
    /\ provPc = "start"
    /\ dialOpts' = (IF IsSet(cfgProjectId) THEN {"WithQuotaProject"} ELSE {})
                     \cup (IF IsSet(cfgAccessToken) THEN {"WithTokenSource"}
                           ELSE IF defaultCreds THEN {"WithCredentials"} ELSE {})
    /\ provPc' = IF FoundGoogleCreds(cfgAccessToken, defaultCreds) THEN "client1" ELSE "done"
    /\ UNCHANGED <<pDiags, resourceData, dataSourceData, attempts>>
    /\ ProvFixed

\* The construction of the n-th client; after the last, the provider data of
\* the response.
NewClient(n) ==
    /\ provPc = "client" \o ToString(n)
    /\ LET c == Clients[n]
       IN  IF c \in clientErrs
           THEN /\ pDiags' = Append(pDiags, Diag(ClientErrorSummary(c), "err"))
                /\ attempts' = Append(attempts, <<c, FALSE>>)
                /\ provPc' = "done"
                /\ UNCHANGED <<resourceData, dataSourceData>>
           ELSE /\ attempts' = Append(attempts, <<c, TRUE>>)
                /\ pDiags' = pDiags
                /\ IF n < Len(Clients)
                   THEN /\ provPc' = "client" \o ToString(n + 1)
                        /\ UNCHANGED <<resourceData, dataSourceData>>
                   ELSE /\ provPc' = "done"
                        /\ resourceData' = <<ProviderConfig>>
                        /\ dataSourceData' = <<ProviderConfig>>
    /\ UNCHANGED dialOpts
    /\ ProvFixed

\* ServiceResource.Configure with req.ProviderData = resp.ResourceData of the
\* provider: nil provider data leaves the resource's clients nil.
ResourceConfigure ==
    /\ provPc = "done"
    /\ resClients' = IF resourceData = <<>> THEN <<>>
                     ELSE <<[c \in {"ServiceManagerClient", "OperationsClient"} |->
                               resourceData[1][c]]>>
    /\ provPc' = "configured"
    /\ UNCHANGED <<cfgProjectId, cfgAccessToken, defaultCreds, clientErrs, dialOpts, pDiags,
                   resourceData, dataSourceData, attempts>>
    /\ UNCHANGED <<dartVars, resVars, idVars>>

NextProv ==
    \/ ResolveCredentials
    \/ \E n \in 1..Len(Clients) : NewClient(n)
    \/ ResourceConfigure

InitProv == ProvInit /\ DartIdle /\ ResIdle /\ IdIdle

SpecProv == InitProv /\ [][NextProv]_vars

-----------------------------------------------------------------------------
(* Semantic-version precedence as the claims mean it (semver.org, item 11), *)
(* stated on version strings and independently of Compare: the triples      *)
(* compare numerically, left to right; with equal triples a pre-release     *)
(* precedes the release, and numeric tags compare numerically.              *)

Precedes(a, b) ==
    \/ a[1] < b[1]
    \/ a[1] = b[1] /\ a[2] < b[2]
    \/ a[1] = b[1] /\ a[2] = b[2] /\ a[3] < b[3]
    \/ a[1] = b[1] /\ a[2] = b[2] /\ a[3] = b[3] /\ a[4] /= 0 /\ (b[4] = 0 \/ a[4] < b[4])

Count(s, x) == Cardinality({i \in 1..Len(s) : s[i] = x})

NoDuplicates(s) == \A i, j \in 1..Len(s) : i /= j => s[i] /= s[j]

\* The channel list the claims call effective, for variant "channels".
EffectiveList == IF cfgChannels.null THEN <<"stable">> ELSE cfgChannels.elems

ListDiags == SelectSeq(dDiags, LAMBDA d : d.summary = "Failed to list versions")

-----------------------------------------------------------------------------
(* Claims about the resource handlers *)

Returned(handlerOps) == op \in handlerOps /\ rpc \in {"done", "panic"}

HasDetail(diags, e) == \E i \in 1..Len(diags) : diags[i].detail = e

\* C1: when a Create, Update or Delete handler has returned, every error
\* that a cloud API call or an operation wait returned to it is the detail
\* of an error diagnostic of its response.
C1_ErrorsBecomeDiagnostics ==
    Returned({"Create", "Update", "Delete"}) =>
      \A e \in returned : HasDetail(rDiags, e)

\* C2: a Read to which the cloud API reported the resource as not found
\* adds no error diagnostic.
C2_NotFoundIsNoError ==
    op = "Read" /\ notFound => rDiags = <<>>

\* C3: a Read that found the remote resource not found returns a state that
\* no longer holds the prior resource values.
C3_NotFoundRemovesState ==
    Returned({"Read"}) /\ notFound => rState /= "prior"

-----------------------------------------------------------------------------
(* Claims about the Dart-version data source *)

\* C4 (as stated): the first error returned by a channel listing request
\* aborts the group of channel requests - no listing request completes
\* successfully once the group holds an error - and that first error is the
\* one reported in the 'Failed to list versions' diagnostic.
C4_FirstErrorAborts ==
    /\ ~okAfterErr
    /\ chanClosed /\ firstErr /= <<>> =>
         ListDiags = <<Diag("Failed to list versions", firstErr[1])>>

\* C4 (amended): the first error returned by a channel listing request is
\* the one, and the only one, reported in the 'Failed to list versions'
\* diagnostic, and no such diagnostic exists when no request failed; the
\* error aborts nothing: the channel is closed only after every entry's
\* request has been made and has returned.
C4_FirstErrorReported ==
    /\ chanClosed =>
         ListDiags = IF firstErr = <<>> THEN <<>>
                     ELSE <<Diag("Failed to list versions", firstErr[1])>>
    /\ ~chanClosed => ListDiags = <<>>
    /\ chanClosed =>
         \A c \in AllChannels : requested[c] = Count(channels, c)

\* C4 witness: Read has finished, an error was reported, and another
\* request succeeded after the group had recorded that error.
C4_Witness ==
    /\ dpc = "done"
    /\ firstErr /= <<>>
    /\ okAfterErr
    /\ Len(ListDiags) = 1

\* C5: with the `channels` attribute, Read issues exactly one listing
\* request per entry of the effective channel list (the configured list, or
\* only "stable" when unset) and none for any other channel; with `channels`
\* unset nothing but the stable listing reaches `versions`.
C5_OneRequestPerEntry ==
    variant = "channels" =>
      /\ \A c \in AllChannels : requested[c] <= Count(EffectiveList, c)
      /\ dpc = "done" => \A c \in AllChannels : requested[c] = Count(EffectiveList, c)
      /\ cfgChannels.null =>
           /\ requested["beta"] = 0 /\ requested["dev"] = 0
           /\ dpc = "done" => requested["stable"] = 1 /\ Range(dState.versions) \subseteq listed

\* C5 witness: `channels` unset, Read finished and produced versions.
C5_Witness ==
    /\ variant = "channels"
    /\ cfgChannels.null
    /\ dpc = "done"
    /\ requested["stable"] = 1
    /\ dState.versions /= <<>>

\* C6: after a Read in which every channel request succeeded, `versions`
\* holds exactly the listed versions that are not lower than min_version in
\* semantic-version precedence and, in the variant with include_prerelease,
\* carry no pre-release tag unless include_prerelease is true.
C6_VersionsExactlyFiltered ==
    dpc = "done" /\ firstErr = <<>> =>
      Range(dState.versions) =
        {v \in listed :
           /\ ~Precedes(v, cfgMinVersion)
           /\ variant = "prerelease" => (v[4] = 0 \/ cfgInclude = "true")}

\* C6 witness: an error-free Read that listed min_version itself and kept
\* it, and listed a lower version and dropped it.
C6_Witness ==
    /\ dpc = "done"
    /\ firstErr = <<>>
    /\ cfgMinVersion \in listed
    /\ cfgMinVersion \in Range(dState.versions)
    /\ \E v \in listed : Precedes(v, cfgMinVersion) /\ v \notin Range(dState.versions)

\* C7: `versions` holds no version twice, however often and by however many
\* channels it was listed and in whatever order the results arrived.
C7_NoDuplicateVersions ==
    dState.set => NoDuplicates(dState.versions)

\* C7 witness: a Read over several channels in which the only version
\* listed was listed more than once, and `versions` holds it once.
C7_Witness ==
    /\ dpc = "done"
    /\ firstErr = <<>>
    /\ Len(channels) >= 2
    /\ dupListed
    /\ Cardinality(listed) = 1
    /\ Len(dState.versions) = 1

\* C8: `versions` is in ascending semantic-version precedence order.
C8_VersionsAscending ==
    dState.set =>
      \A i, j \in 1..Len(dState.versions) :
        i < j => Precedes(dState.versions[i], dState.versions[j])

\* C8 witness: a Read whose `versions` holds three versions, a pre-release
\* among them.
C8_Witness ==
    /\ dpc = "done"
    /\ firstErr = <<>>
    /\ Len(dState.versions) >= 3
    /\ \E i \in 1..Len(dState.versions) : dState.versions[i][4] /= 0

\* C9: `container_versions` is duplicate-free and is exactly the image of
\* `versions` under: a pre-release version maps to its full string, any other
\* version to its major.minor roll-up.
C9_ContainerVersions ==
    variant = "prerelease" /\ dState.set =>
      /\ NoDuplicates(dState.container_versions)
      /\ Range(dState.container_versions) =
           {IF dState.versions[i][4] /= 0 THEN dState.versions[i]
            ELSE <<dState.versions[i][1], dState.versions[i][2]>> :
              i \in 1..Len(dState.versions)}

\* C9 witness: `versions` holds a pre-release and two patch versions of one
\* minor version; `container_versions` holds two entries for the three.
C9_Witness ==
    /\ variant = "prerelease"
    /\ dpc = "done"
    /\ firstErr = <<>>
    /\ Len(dState.versions) = 3
    /\ Len(dState.container_versions) = 2
    /\ \E i \in 1..2 : Len(dState.container_versions[i]) = 4

\* C10: a configuration whose `channels` holds a value other than stable,
\* beta or dev is rejected with a 'must be one of' error; no listing request
\* is issued and no state is produced for it.
C10_BadChannelRejected ==
    variant = "channels" /\ (\E i \in 1..Len(cfgChannels.elems) : cfgChannels.elems[i] \notin AllChannels) =>
      /\ dpc \in {"config", "rejected"}
      /\ dpc = "rejected" => \E i \in 1..Len(dDiags) : dDiags[i].detail.text = "must be one of"
      /\ \A c \in AllChannels : requested[c] = 0
      /\ ~dState.set

\* C10 witness: the configuration channels = ["stable", "bad"] was rejected.
C10_Witness ==
    /\ cfgChannels = ListOf(<<"stable", "bad">>)
    /\ dpc = "rejected"
    /\ dDiags /= <<>>

-----------------------------------------------------------------------------
(* Claims about the tenant-project poll loops *)

Issued(name) == \E i \in 1..Len(calls) : calls[i].name = name

IssuedCount(name) == Cardinality({i \in 1..Len(calls) : calls[i].name = name})

InLoop == resource = "service_project" /\ rpc \in {"poll", "get"}

LastDiag(diags) == diags[Len(diags)]

\* C11: in tenant-project Create, Update and Delete every operation-status
\* request is preceded by exactly one sleep - there are as many sleeps as
\* status requests - and every sleep lasts 5 seconds, however many polls
\* have been made.
C11_FixedPollInterval ==
    resource = "service_project" =>
      /\ Len(sleeps) = IssuedCount("Operations.Get")
      /\ \A i \in 1..Len(sleeps) : sleeps[i] = 5

\* C11 witness: a Create that polled twice and then wrote its state.
C11_Witness ==
    /\ resource = "service_project" /\ op = "Create" /\ rpc = "done"
    /\ IssuedCount("Operations.Get") = 2
    /\ rState = "written"

\* C12: the handler leaves the poll loop only when a poll has reported the
\* operation done or a poll request returns an error (which it reports as
\* 'Error getting operation'); and a handler in the loop, whose operation
\* becomes done while polls succeed, eventually returns.
C12_PollsToCompletion ==
    /\ [][(InLoop /\ ncalls' = ncalls /\ rpc' \notin {"poll", "get"}) =>
            \/ opDone
            \/ /\ rpc' = "done"
               /\ Len(rDiags') = Len(rDiags) + 1
               /\ LastDiag(rDiags').summary = "Error getting operation"
               /\ LastDiag(rDiags').detail \in returned']_vars
    /\ InLoop ~> (rpc \in {"done", "panic"})

\* C12 witness: an Update that left the loop after two polls, the second of
\* which reported the operation done.
C12_Witness ==
    /\ resource = "service_project" /\ op = "Update" /\ rpc = "done"
    /\ polls = 2 /\ opDone /\ rDiags = <<>>

\* C13 (as stated): cancelling the request context while an operation is
\* being polled does not make the loop stop polling: a handler whose context
\* was cancelled still returns only after the operation is done or the cloud
\* has returned an error.
C13_CancelDoesNotStopLoop ==
    resource = "service_project" /\ cancelled /\ rpc \in {"done", "panic"} =>
      opDone \/ returned \cap CloudErrors /= {}

\* C13 (amended): cancellation interrupts neither the sleep nor the loop,
\* which never looks at the context; but the status request is issued with
\* the context: a handler whose context is cancelled when its turn of the
\* loop starts still sleeps 5 seconds and issues the request, the request
\* fails with the context's error, and the handler returns with an 'Error
\* getting operation' diagnostic.
C13_CancelStopsAtNextRequest ==
    [][(InLoop /\ rpc = "poll" /\ ~opDone /\ cancelled) =>
         /\ sleeps' = Append(sleeps, 5)
         /\ IssuedCount("Operations.Get")' = IssuedCount("Operations.Get") + 1
         /\ rpc' = "done"
         /\ rDiags' = Append(rDiags, Diag("Error getting operation", CtxError))
         /\ rState' = rState]_vars

\* C13 witness: a Create polled once with success, was cancelled, and
\* returned on the next request with the context's error.
C13_Witness ==
    /\ resource = "service_project" /\ op = "Create" /\ rpc = "done"
    /\ cancelled /\ ~opDone /\ polls = 2
    /\ rDiags = <<Diag("Error getting operation", CtxError)>>
    /\ rState = "none"

-----------------------------------------------------------------------------
(* Claims about the service rollout resource *)

\* How many of `config_id` and `rollout_config` the configuration specifies.
Specified ==
    (IF cfgConfigId.null THEN 0 ELSE 1) + (IF cfgRolloutConfig.null THEN 0 ELSE 1)

\* The handler of a rollout Create or Update has been entered.
Entered == rpc \notin {"start", "rejected"}

\* C14: a rollout configuration reaches Create or Update only if exactly
\* one of `config_id` and `rollout_config` is specified; one with both or
\* with neither is rejected with an error, and no request is issued, no
\* rollout created and no state written for it.
C14_ExactlyOneAccepted ==
    HasRolloutConfig(resource, op) =>
      /\ Entered => Specified = 1
      /\ Specified /= 1 =>
           /\ rpc \in {"start", "rejected"}
           /\ rpc = "rejected" => HasError(rDiags)
           /\ calls = <<>>
           /\ rState /= "written"
           /\ rId = (IF op = "Create" THEN <<>> ELSE PriorId)

\* C14 witness: a Create whose configuration specifies both attributes has
\* been rejected.
C14_Witness ==
    /\ resource = "service_rollout" /\ op = "Create" /\ rpc = "rejected"
    /\ ~cfgConfigId.null /\ ~cfgRolloutConfig.null
    /\ HasError(rDiags)

\* C15: in rollout Create and Update, whenever createRollout fails (it has
\* added an error to its diagnostics and returns no rollout ID) the handler
\* returns without writing state and without dereferencing the missing
\* rollout ID (which panics).
C15_FailedRolloutReturns ==
    HasRolloutConfig(resource, op) /\ HasError(lDiags) /\ rpc \in {"done", "panic"} =>
      rpc = "done" /\ rState /= "written"

\* The one "/" of a well-formed ID splits it into its two parts.
SlashAt(id) == CHOOSE i \in 1..Len(id) : id[i] = "/"
ServicePart(id) == SubSeq(id, 1, SlashAt(id) - 1)
ConfigPart(id) == SubSeq(id, SlashAt(id) + 1, Len(id))
Slashes(id) == Cardinality({i \in 1..Len(id) : id[i] = "/"})

RolloutRequests == SelectSeq(calls, LAMBDA c : c.name = "CreateServiceRollout")

\* C18: the CreateServiceRollout request of a rollout made from `config_id`
\* = serviceName/configId targets serviceName and carries exactly one
\* percentage, configId at 100; the request of a rollout made from
\* `rollout_config` carries exactly the configured values, each keyed by the
\* config-ID part of its key.
C18_RolloutRequest ==
    HasRolloutConfig(resource, op) =>
      \A i \in 1..Len(RolloutRequests) :
        IF ~cfgConfigId.null
        THEN /\ RolloutRequests[i].service = ServicePart(cfgConfigId.value)
             /\ RolloutRequests[i].percentages = {<<ConfigPart(cfgConfigId.value), 100>>}
        ELSE RolloutRequests[i].percentages =
               {<<ConfigPart(kv[1]), kv[2]>> : kv \in cfgRolloutConfig.elems}

\* The keys of `rollout_config`, and what makes them bad: a key that is not
\* serviceName/configId, or two keys of different services.
Keys == {kv[1] : kv \in cfgRolloutConfig.elems}
BadKeys ==
    \/ \E k \in Keys : Slashes(k) /= 1
    \/ \E k1, k2 \in Keys :
         Slashes(k1) = 1 /\ Slashes(k2) = 1 /\ ServicePart(k1) /= ServicePart(k2)

\* C19: a rollout whose `rollout_config` keys name more than one service or
\* hold a key not of the form serviceName/configId is rejected with an
\* 'Invalid config ID' error diagnostic, and CreateServiceRollout is never
\* called for it.
C19_BadKeysRejected ==
    HasRolloutConfig(resource, op) /\ cfgConfigId.null /\ ~cfgRolloutConfig.null /\ BadKeys =>
      /\ ~Issued("CreateServiceRollout")
      /\ rpc \in {"done", "panic"} =>
           \E i \in 1..Len(rDiags) : rDiags[i].summary = "Invalid config ID"

-----------------------------------------------------------------------------
(* Claims about the tenant project and the service resources *)

\* C16: when the operation started by tenant-project Create, Update or
\* Delete has finished with an error result, the handler that returns has
\* reported an error diagnostic and, in Create and Update, has written no
\* state.
C16_FailedOperationReported ==
    resource = "service_project" /\ opFailed /\ rpc \in {"done", "panic"} =>
      /\ HasError(rDiags)
      /\ rState /= "written"

\* An error that reports "not found": by its status code or by its message.
SaysNotFound(e) == e.code = "NotFound" \/ e.nf

\* C17: Service Create issues CreateService only after its GetService check
\* has returned a not-found error; when the check finds the service the
\* handler reports 'Service already exists', when it fails with another error
\* the handler reports that error, and in both cases CreateService is not
\* called and no state is written.
C17_CreateOnlyAfterNotFound ==
    resource = "service" /\ op = "Create" =>
      /\ \A i \in 1..Len(calls) :
           calls[i].name = "CreateService" =>
             /\ i = 2 /\ calls[1].name = "GetService"
             /\ \E e \in returned : SaysNotFound(e)
      /\ rpc = "done" /\ Len(calls) = 1 =>
           /\ rState = "none"
           /\ Len(rDiags) = 1
           /\ IF returned = {}
              THEN rDiags[1].summary = "Service already exists"
              ELSE /\ rDiags[1].summary = "Error getting service"
                   /\ returned = {rDiags[1].detail}
                   /\ ~SaysNotFound(rDiags[1].detail)

\* C17 witness: a Create whose check returned an error that is no not-found
\* has returned, with that error reported and nothing else requested.
C17_Witness ==
    /\ resource = "service" /\ op = "Create" /\ rpc = "done"
    /\ calls = <<Call("GetService")>>
    /\ rDiags = <<Diag("Error getting service",
                       [kind |-> "grpc", code |-> "Internal", nf |-> FALSE])>>

-----------------------------------------------------------------------------
(* Claims about what the cloud holds *)

Versioned == resource \in {"service_rollout", "service_config"}

CreatingRequests ==
    SelectSeq(calls, LAMBDA c : c.name \in {"CreateServiceRollout", "SubmitConfigSource"})

IsPrefix(a, b) == Len(a) <= Len(b) /\ a = SubSeq(b, 1, Len(a))

\* C20: under any sequence of handler calls no rollout or configuration the
\* cloud holds is ever deleted or modified; Delete of a rollout or of a
\* configuration issues no request; and the step in which a Create or Update
\* of one succeeds (writes its state) adds exactly one object to the cloud,
\* whose ID no other object has and becomes, after the service name, the
\* `id` of the resource - that call having issued exactly one creating
\* request.
C20_CloudOnlyGrows ==
    /\ [][IsPrefix(remote, remote')]_vars
    /\ [](Versioned /\ op = "Delete" => calls = <<>>)
    /\ [][(Versioned /\ ncalls' = ncalls /\ rState /= "written" /\ rState' = "written"
             /\ op \in {"Create", "Update"}) =>
            /\ Len(remote') = Len(remote) + 1
            /\ \A i \in 1..Len(remote) : remote[i].id /= remote'[Len(remote')].id
            /\ rId' = remote'[Len(remote')].service \o <<"/">> \o remote'[Len(remote')].id
            /\ Len(CreatingRequests) = 1]_vars
    /\ [][(Versioned /\ ncalls' = ncalls /\ rpc' \notin {"done", "panic"}) =>
            remote' = remote]_vars

\* C20 witness: after a rollout Create and a rollout Update the cloud holds
\* two more rollouts than before, and `id` names the newest.
C20_Witness ==
    /\ resource = "service_rollout" /\ op = "Update" /\ rpc = "done"
    /\ rState = "written"
    /\ Len(remote) = Len(PriorRemote) + 2
    /\ rId = <<"s", "/", "3">>

-----------------------------------------------------------------------------
(* IDs *)

\* The text of idIn before and after its (only) "/".
BeforeSlash == SubSeq(idIn, 1, SlashAt(idIn) - 1)
AfterSlash == SubSeq(idIn, SlashAt(idIn) + 1, Len(idIn))

\* C21: parseConfigId and parseRolloutId succeed exactly on the IDs that
\* split on "/" into two parts (the IDs with exactly one "/"), and then
\* return the text before and the text after the "/", in that order; on
\* every other ID they return the format error; and an ID made by
\* newConfigId / newRolloutId from a service name s and an ID x that hold
\* no "/" parses back to (s, x).
C21_ParseAcceptsTwoParts ==
    idPc = "parsed" =>
      /\ (idOut.err = "") <=> (Slashes(idIn) = 1)
      /\ idOut.err = "" => idOut.first = BeforeSlash /\ idOut.second = AfterSlash
      /\ idOut.err /= "" =>
            idOut.err = IF idOut.fn = "config" THEN "invalid config ID format"
                        ELSE "invalid rollout ID format"
      /\ idMade /= "none" =>
            idOut.err = "" /\ idOut.first = idParts[1] /\ idOut.second = idParts[2]

\* C21 witness: the rollout ID made from "s" and "1" parsed back to them.
C21_Witness ==
    /\ idPc = "parsed"
    /\ idMade = "rollout"
    /\ idParts = <<<<"s">>, <<"1">>>>
    /\ idOut = Parsed("rollout", "", <<"s">>, <<"1">>)

-----------------------------------------------------------------------------
(* Provider Configure *)

\* Configure has returned.
Configured == provPc \in {"done", "configured"}

\* The credentials the claim counts as resolved: an access token that is
\* set, or else default credentials that are found.
CredentialsResolved == (cfgAccessToken = "value") \/ defaultCreds

\* Some client construction was made and failed.
ConstructionFailed == \E i \in 1..Len(attempts) : ~attempts[i][2]

\* C22: when Configure has returned, the resource and the data-source
\* provider data are set - both to the same config object, which holds the
\* three clients - exactly when credentials were resolved and all three
\* clients were constructed; an error diagnostic was added exactly when a
\* client construction failed; and with no credentials found Configure
\* returns with neither provider data nor an error, having constructed no
\* client.
C22_ProviderData ==
    Configured =>
      /\ resourceData = dataSourceData
      /\ (resourceData /= <<>>) <=>
            (CredentialsResolved /\ Len(attempts) = Len(Clients)
               /\ \A i \in 1..Len(attempts) : attempts[i] = <<Clients[i], TRUE>>)
      /\ resourceData /= <<>> => DOMAIN resourceData[1] = Range(Clients)
      /\ HasError(pDiags) <=> ConstructionFailed
      /\ ~CredentialsResolved =>
            resourceData = <<>> /\ pDiags = <<>> /\ attempts = <<>>
      /\ CredentialsResolved /\ ~ConstructionFailed => resourceData /= <<>>

\* C22 witness: no access token, default credentials found, all three
\* clients constructed, and the provider data set.
C22_Witness ==
    /\ provPc = "done"
    /\ cfgAccessToken = "null"
    /\ defaultCreds
    /\ Len(attempts) = Len(Clients)
    /\ resourceData /= <<>>

-----------------------------------------------------------------------------
(* Rollout Read *)

\* The step in which the Read of resource r returns.
ReadReturns(r) ==
    /\ resource = r /\ op = "Read" /\ rpc = "start"
    /\ ncalls' = ncalls /\ rpc' = "done"

\* The only key of a map with one entry.
OnlyKey(m) == (CHOOSE e \in m : TRUE)[1]

\* C23: a rollout Read that writes the state writes, with rawPct the
\* percentages of the remote rollout and serviceName the text of `id` before
\* its "/": config_id = serviceName/thatConfigId when the prior state has
\* neither attribute and rawPct has exactly one entry; rollout_config =
\* rawPct when it has neither and rawPct has any other number of entries;
\* rollout_config = rawPct when only rollout_config is set; and nothing new
\* when config_id is set.  The other attribute is left as it was, and after
\* any Read at most one of the two attributes is set.
C23_RolloutReadRule ==
    [][ReadReturns("service_rollout") =>
         LET rawPct == answer'.percentages
             neither == rAttrs.config_id.null /\ rAttrs.rollout_config.null
         IN  /\ rState' /= "written" => rAttrs' = rAttrs
             /\ (rState' = "written" /\ neither /\ Cardinality(rawPct) = 1) =>
                   /\ rAttrs'.config_id =
                        StringValue(ServicePart(rId) \o <<"/">> \o OnlyKey(rawPct))
                   /\ rAttrs'.rollout_config = rAttrs.rollout_config
             /\ (rState' = "written" /\ neither /\ Cardinality(rawPct) /= 1) =>
                   /\ rAttrs'.rollout_config = MapValue(rawPct)
                   /\ rAttrs'.config_id = rAttrs.config_id
             /\ (rState' = "written" /\ rAttrs.config_id.null /\ ~rAttrs.rollout_config.null) =>
                   /\ rAttrs'.rollout_config = MapValue(rawPct)
                   /\ rAttrs'.config_id = rAttrs.config_id
             /\ (rState' = "written" /\ ~rAttrs.config_id.null) => rAttrs' = rAttrs
             /\ rAttrs'.config_id.null \/ rAttrs'.rollout_config.null]_vars

\* C23 witness: the Read of an imported rollout whose remote holds the one
\* entry "1" has written config_id = "s/1".
C23_Witness ==
    /\ resource = "service_rollout" /\ op = "Read" /\ rpc = "done" /\ rState = "written"
    /\ ~chained
    /\ Cardinality(answer.percentages) = 1
    /\ rAttrs.config_id = StringValue(<<"s", "/", "1">>)
    /\ rAttrs.rollout_config.null

\* Every key of the map is serviceName/configId with a service name.
WellFormedKeys(m) ==
    \A e \in m : Slashes(e[1]) = 1 /\ ServicePart(e[1]) /= <<>> /\ ConfigPart(e[1]) /= <<>>

\* C24: the Read that follows the Create or Update of a rollout made from a
\* `rollout_config` with keys serviceName/configId, and that writes the
\* state from the rollout as the cloud holds it, writes a rollout_config
\* equal to the configured map.
C24_ReadKeepsRolloutConfig ==
    [][(ReadReturns("service_rollout") /\ chained /\ rState' = "written"
          /\ ~rAttrs.rollout_config.null /\ WellFormedKeys(rAttrs.rollout_config.elems)) =>
         rAttrs'.rollout_config = rAttrs.rollout_config]_vars

-----------------------------------------------------------------------------
(* Configuration Create, then Read *)

\* A canonical standard-base64 text (RFC 4648): whole groups of four
\* characters of the alphabet, the last group padded with one or two "="
\* after characters whose unused bits are zero, and nothing else.
CanonicalBase64(t) ==
    LET n == Len(t)
    IN  /\ n % 4 = 0
        /\ \A j \in 1..(n - 2) : IsB64(t[j])
        /\ n > 0 =>
              \/ IsB64(t[n - 1]) /\ IsB64(t[n])
              \/ IsB64(t[n - 1]) /\ t[n] = "=" /\ B64Value(t[n - 1]) % 4 = 0
              \/ t[n - 1] = "=" /\ t[n] = "=" /\ B64Value(t[n - 2]) % 16 = 0

\* C25: the Read that follows the Create or Update of a configuration, when
\* the cloud returns the configuration with the two submitted source files,
\* writes the state with config_yaml = the submitted YAML,
\* proto_descriptor_base64 = the canonical base64 text of the submitted
\* descriptor bytes, and `id` = the configuration's name, "/", its ID (the
\* `id` Create wrote); for a canonical proto_descriptor_base64 the state is
\* the state Create wrote.
C25_ConfigRoundTrip ==
    [][(ReadReturns("service_config") /\ chained /\ answer'.kind = "config"
          /\ Len(answer'.files) = 2) =>
         LET yaml == answer'.files[1].contents
             bytes == answer'.files[2].contents
             i == CHOOSE k \in 1..Len(remote) :
                    remote[k].kind = "config" /\ content[k].files = answer'.files
                      /\ rId = remote[k].service \o <<"/">> \o remote[k].id
         IN  /\ rState' = "written"
             /\ rDiags' = <<>>
             /\ rAttrs'.config_yaml = StringValue(yaml)
             /\ rAttrs'.config_yaml = rAttrs.config_yaml
             /\ CanonicalBase64(rAttrs'.proto_descriptor_base64.value)
             /\ DecodeString(rAttrs'.proto_descriptor_base64.value) = Decoded(FALSE, bytes)
             /\ DecodeString(rAttrs.proto_descriptor_base64.value) = Decoded(FALSE, bytes)
             /\ rId' = remote[i].service \o <<"/">> \o remote[i].id
             /\ rId' = rId
             /\ CanonicalBase64(rAttrs.proto_descriptor_base64.value) => rAttrs' = rAttrs]_vars

\* C25 witness: a configuration made from the canonical text "QUI=" was
\* read back, and the state holds that text.
C25_Witness ==
    /\ resource = "service_config" /\ op = "Read" /\ rpc = "done" /\ rState = "written"
    /\ chained
    /\ answer.kind = "config" /\ Len(answer.files) = 2
    /\ answer.files[2].contents = <<65, 66>>
    /\ rAttrs.proto_descriptor_base64 = StringValue(<<"Q", "U", "I", "=">>)

-----------------------------------------------------------------------------
(* The tenant project *)

\* The listed tenancy unit of the project: the first one named as the
\* project's tenancy_unit, in any letter case.
ListedUnits(units) ==
    {k \in 1..Len(units) : EqualFold(units[k].name, ProjectTenancyUnit)}
TheUnit(units) == units[CHOOSE k \in ListedUnits(units) : \A j \in ListedUnits(units) : k <= j]

\* The positions of the unit's tenant resources that carry the project's tag.
Tagged(unit) == {k \in 1..Len(unit.resources) : unit.resources[k].tag = ProjectTag}
FirstOfTag(unit) ==
    unit.resources[CHOOSE k \in Tagged(unit) : \A j \in Tagged(unit) : k <= j]

\* The listing holds a project for the tag.
HoldsProject(units) == ListedUnits(units) /= {} /\ Tagged(TheUnit(units)) /= {}

\* C26: in the step in which a tenant-project Create, Update or Read gets
\* the listing of tenancy units, it writes the state exactly when the
\* project's tenancy unit is listed and has a tenant resource with the
\* project's tag, and it then writes the name and the status of the first
\* such resource as `id` and `status`; otherwise (no such unit, or no
\* resource of that tag) it finds no project and writes nothing: Read
\* returns, Create and Update panic.
C26_FirstTaggedResource ==
    [][(resource = "service_project" /\ ncalls' = ncalls /\ answer.kind = "none"
          /\ answer'.kind = "units") =>
         LET units == answer'.units
         IN  /\ (rState' = "written") <=> HoldsProject(units)
             /\ HoldsProject(units) =>
                   /\ rId' = FirstOfTag(TheUnit(units)).resource
                   /\ rAttrs'.status = StringValue(FirstOfTag(TheUnit(units)).status)
                   /\ rpc' = "done"
             /\ ~HoldsProject(units) =>
                   /\ rId' = rId /\ rAttrs' = rAttrs /\ rState' = rState
                   /\ rpc' = IF op = "Read" THEN "done" ELSE "panic"]_vars

\* C26 witness: a Create received the listing in which a resource of
\* another tag stands before the resource of the project's tag, and wrote
\* the latter.
C26_Witness ==
    /\ resource = "service_project" /\ op = "Create" /\ rpc = "done" /\ rState = "written"
    /\ answer.kind = "units" /\ Len(answer.units) = 1
    /\ Len(answer.units[1].resources) = 2
    /\ answer.units[1].resources[1].tag = "b"
    /\ rId = <<"p", "1">>
    /\ rAttrs.status = StringValue(<<"PENDING_CREATE">>)

-----------------------------------------------------------------------------
(* The fan-out / fan-in of the Dart-version Read *)

\* Every channel request of the Read has returned.
AllRequestsReturned == dpc = "range" /\ \A i \in 1..Len(prodPc) : prodPc[i] /= "run"

\* C27: whatever requests succeed or fail and however the goroutines
\* interleave: the channel is closed only when every producer has returned,
\* its send (if it had a listing) received and merged; once closed it stays
\* closed and no producer moves again, so nothing is sent on the closed
\* channel and it is closed once; a Read that has finished has closed the
\* channel; and once every channel request has returned Read terminates.
C27_FanInTerminates ==
    /\ [](chanClosed => /\ \A i \in 1..Len(prodPc) : prodPc[i] = "done"
                        /\ versionsSet = listed)
    /\ [][chanClosed => chanClosed' /\ prodPc' = prodPc /\ versionsSet' = versionsSet]_vars
    /\ [][chanClosed' /= chanClosed =>
            \A i \in 1..Len(prodPc) : prodPc[i] = "done"]_vars
    /\ [](dpc = "done" => chanClosed)
    /\ (AllRequestsReturned ~> dpc = "done")

\* C27 witness: a Read with a failed request and two listings received has
\* finished.
C27_Witness ==
    /\ dpc = "done"
    /\ chanClosed
    /\ firstErr /= <<>>
    /\ Cardinality({i \in 1..Len(prodPc) : requested[channels[i]] > 0}) >= 2
    /\ listed /= {}
    /\ versionsSet = listed

====
